---- MODULE Spec2Model ----
(***************************************************************************)
(* A model of the sequencing blocks (doing / doingAsync, src/do.ts) and of *)
(* guarded execution (trying / tryCatching and their async forms,          *)
(* src/try.ts) of the jonads library.                                      *)
(*                                                                         *)
(* One behaviour of Spec is one invocation of one entry point on one       *)
(* block.  A block is a straight-line callback as the documentation and    *)
(* the tests of do.ts write them: a sequence of statements, each           *)
(* `x = bind(arg)` (in an async block `x = await bind(arg)`) or `throw F`, *)
(* followed by a return.                                                   *)
(*                                                                         *)
(* One behaviour of SpecOps is the construction of one Either, Result or   *)
(* Option instance followed by calls of its methods (src/either,           *)
(* src/result, src/option), with the values, functions and promises a      *)
(* caller can pass.                                                        *)
(*                                                                         *)
(* One behaviour of SpecNest is one invocation of doing or doingAsync      *)
(* whose block calls doing / doingAsync again from inside: a stack of      *)
(* invocations, the innermost on top, each block choosing its next         *)
(* statement as it runs.                                                   *)
(***************************************************************************)
EXTENDS Integers, Sequences, FiniteSets, TLC

VARIABLES
    phase,            \* "idle" | "block" | "try" | "handle" | "done"
    fn,               \* the entry point invoked
    catchall,         \* the catchall argument of doing / doingAsync
    allowed,          \* the allow-list of tryCatching / tryCatchingAsync
    block,            \* the block passed in: [stmts, ret]
    pc,               \* index of the statement of the block to execute next
    binds,            \* per statement: state of the bind call it makes
    bound,            \* values the bind calls have yielded to the block, in order
    trace,            \* indices of the statements executed, in order
    blockCompletion,  \* how the block ended
    tryCompletion,    \* how trying / tryCatching ended
    outcome,          \* what the caller of the entry point receives
    ctor,             \* how the instance under call was constructed
    recv,             \* the instance on which methods are called
    created,          \* that instance as its constructor returned it
    op,               \* the last call made on it: [m, xs]
    opResult,         \* how that call completed
    opRef,            \* "this" | "new" | "none": the instance it handed back
    opCalls,          \* the functions that call invoked, with arguments
    opPrev,           \* the call whose result that call was handed, if any
    nops,             \* number of calls made on the instance
    nestFn,           \* the entry point the nested invocations use
    frames,           \* the invocations in progress, the innermost last
    nestEnded,        \* how the block of the innermost one ended
    nestRet,          \* what the last nested call handed to its caller
    nestOutcome       \* what the caller of the outermost one receives

blockVars == <<phase, fn, catchall, allowed, block, pc, binds, bound, trace,
               blockCompletion, tryCompletion, outcome>>
opsVars ==
    <<ctor, recv, created, op, opResult, opRef, opCalls, opPrev, nops>>
nestVars == <<nestFn, frames, nestEnded, nestRet, nestOutcome>>
vars == <<blockVars, opsVars, nestVars>>

(***************************************************************************)
(* Bounds                                                                  *)
(***************************************************************************)
MaxStmts == 3
MaxErrors == 2
MaxOps == 2
\* Invocations of doing / doingAsync nested in one another.
MaxDepth == 2

(***************************************************************************)
(* Values.  Every value is a record [tag, p].                              *)
(***************************************************************************)
Raw(a) == [tag |-> "raw", p |-> a]
Undefined == [tag |-> "undefined", p |-> "undefined"]
Null == [tag |-> "null", p |-> "null"]

\* An instance of an Error class; p is the name of its class.
Fault(cls) == [tag |-> "Error", p |-> cls]

\* A promise that is (or will be) fulfilled with v / rejected with f.
Resolves(v) == [tag |-> "resolves", p |-> v]
Rejects(f) == [tag |-> "rejects", p |-> f]

\* Left / Right and the Result subclasses Ok / Err: the tag is the class.
Ok(v) == [tag |-> "Ok", p |-> v]
Err(e) == [tag |-> "Err", p |-> e]

Result_ok(value) == Ok(value)
Result_err(value) == Err(value)

Result_isInstance(value) == value.tag \in {"Ok", "Err"}

isLeft(e) == e.tag \in {"Left", "Ok", "Some"}
isRight(e) == e.tag \in {"Right", "Err", "None"}

\* The payload of a Left or Right.  match(onLeft, onRight) applies onLeft to
\* it on a Left and onRight to it on a Right; the definitions below write a
\* call of match as IF isLeft(e) THEN onLeft(value(e)) ELSE onRight(value(e)).
value(e) == e.p

(***************************************************************************)
(* Completions: a call either returns a value or throws one.               *)
(***************************************************************************)
Return(v) == [c |-> "return", v |-> v]
Throw(x) == [c |-> "throw", v |-> x]
None == [c |-> "none", v |-> Undefined]

(***************************************************************************)
(* Error classes                                                           *)
(***************************************************************************)
\* `class X extends Y`: the superclass of each class.
SuperClass(cls) ==
    CASE cls = "DoPropagateError" -> "JonadsError"
      [] cls = "GetValueError" -> "JonadsError"
      [] OTHER -> "Error"

RECURSIVE Ancestors(_)
Ancestors(cls) ==
    IF cls = "Error" THEN {"Error"} ELSE {cls} \cup Ancestors(SuperClass(cls))

\* The propagation signal: a DoPropagateError carrying `error`.
DoPropagateError(error) == [tag |-> "DoPropagateError", p |-> error]
getError(signal) == signal.p

\* Variant: only the class of x itself counts, not its superclasses.
instanceOf_exactClass(x, cls) ==
    CASE x.tag = "Error" -> cls = x.p
      [] x.tag = "DoPropagateError" -> cls = "DoPropagateError"
      [] x.tag = "GetValueError" -> cls = "GetValueError"
      [] x.tag = "NewError" -> cls = "Error"
      [] OTHER -> FALSE

\* x instanceof cls
instanceOf(x, cls) ==
    CASE x.tag = "Error" -> cls \in Ancestors(x.p)
      [] x.tag = "DoPropagateError" -> cls \in Ancestors("DoPropagateError")
      [] x.tag = "GetValueError" -> cls \in Ancestors("GetValueError")
      [] x.tag = "NewError" -> cls = "Error"
      [] OTHER -> FALSE

(***************************************************************************)
(* src/try.ts                                                              *)
(***************************************************************************)
\* trying(block), given how the block ended.
\* Variant: a Result the block returns is handed back as it is.
trying_flattens(b) ==
    IF b.c = "return"
    THEN Return(IF b.v.tag \in {"Ok", "Err"} THEN b.v
                ELSE [tag |-> "Ok", p |-> b.v])
    ELSE Return([tag |-> "Err", p |-> b.v])

trying(b) ==
    IF b.c = "return" THEN Return(Result_ok(b.v)) ELSE Return(Result_err(b.v))

\* Variant: the await sits outside the try, so a rejection escapes.
tryingAsync_awaitOutsideTry(b) ==
    IF b.c = "return" THEN Return(Result_ok(b.v)) ELSE Throw(b.v)

\* tryingAsync(block): the await is inside the try, so a rejection of the
\* block's promise is caught like a throw.
tryingAsync(b) ==
    IF b.c = "return" THEN Return(Result_ok(b.v)) ELSE Return(Result_err(b.v))

\* Variant: the test of the allow-list is inverted.
handleTryError_inverted(e, errors) ==
    IF ~(\E i \in 1..Len(errors) : instanceOf(e, errors[i]))
    THEN Return(Result_err(e))
    ELSE Throw(e)

handleTryError(e, errors) ==
    IF \E i \in 1..Len(errors) : instanceOf(e, errors[i])
    THEN Return(Result_err(e))
    ELSE Throw(e)

\* Variant: with an empty list nothing is caught.
tryCatching_emptyCatchesNone(errors, b) ==
    IF b.c = "return" THEN Return(Result_ok(b.v)) ELSE Throw(b.v)

\* Variant: an empty list is not handed over to trying.
tryCatching_noDelegate(errors, b) ==
    IF b.c = "return" THEN Return(Result_ok(b.v))
    ELSE handleTryError(b.v, errors)

tryCatching(errors, b) ==
    IF Len(errors) = 0 THEN trying(b)
    ELSE IF b.c = "return" THEN Return(Result_ok(b.v))
    ELSE handleTryError(b.v, errors)

\* Variant: an empty list is not handed over to tryingAsync.
tryCatchingAsync_noDelegate(errors, b) ==
    IF b.c = "return" THEN Return(Result_ok(b.v))
    ELSE handleTryError(b.v, errors)

tryCatchingAsync(errors, b) ==
    IF Len(errors) = 0 THEN tryingAsync(b)
    ELSE IF b.c = "return" THEN Return(Result_ok(b.v))
    ELSE handleTryError(b.v, errors)

(***************************************************************************)
(* src/do.ts                                                               *)
(***************************************************************************)
\* Variant: the error of an Err is returned to the block, not thrown.
bindResult_returnsError(result) ==
    IF Result_isInstance(result)
    THEN IF isLeft(result) THEN Return(value(result))
         ELSE Return(value(result))
    ELSE Return(result)

\* Variant: an Ok is handed back as it is, not unwrapped.
bindResult_noUnwrap(result) ==
    IF Result_isInstance(result)
    THEN IF isLeft(result) THEN Return(result)
         ELSE Throw(DoPropagateError(value(result)))
    ELSE Return(result)

bindResult(result) ==
    IF Result_isInstance(result)
    THEN IF isLeft(result) THEN Return(value(result))
         ELSE Throw(DoPropagateError(value(result)))
    ELSE Return(result)

\* `await Promise.resolve(result)`: the value awaited, or the fault thrown
\* at the await when result is a promise that rejects.
awaitResolve(result) ==
    IF result.tag = "rejects" THEN Throw(result.p)
    ELSE IF result.tag = "resolves" THEN Return(result.p)
    ELSE Return(result)

\* Variant: the argument is classified without being awaited.
bindPromisedResult_noAwait(result) ==
    IF Result_isInstance(result) THEN bindResult(result)
    ELSE bindResult(Result_ok(result))

\* bindPromisedResult, from its await onwards.
bindPromisedResult(result) ==
    LET resolved == awaitResolve(result) IN
    IF resolved.c = "throw" THEN resolved
    ELSE IF Result_isInstance(resolved.v) THEN bindResult(resolved.v)
    ELSE bindResult(Result_ok(resolved.v))

\* Variant: catchall is ignored, the list is always empty.
catchingErrors_empty(ca) == <<>>

\* The list doing / doingAsync pass to tryCatching / tryCatchingAsync.
catchingErrors(ca) == IF ~ca THEN <<"DoPropagateError">> ELSE <<>>

\* Variant: the signal is not unwrapped.
handleDoingResult_noUnwrap(result) ==
    IF isLeft(result) THEN Result_ok(value(result))
    ELSE Result_err(value(result))

handleDoingResult(result) ==
    IF isLeft(result) THEN Result_ok(value(result))
    ELSE IF instanceOf(value(result), "DoPropagateError")
    THEN Result_err(getError(value(result)))
    ELSE Result_err(value(result))

(***************************************************************************)
(* Blocks                                                                  *)
(***************************************************************************)
Fns ==
    {"doing", "doingAsync", "trying", "tryingAsync", "tryCatching",
     "tryCatchingAsync"}
isAsyncFn(f) == f \in {"doingAsync", "tryingAsync", "tryCatchingAsync"}
isDoingFn(f) == f \in {"doing", "doingAsync"}
isCatchingFn(f) == f \in {"tryCatching", "tryCatchingAsync"}

FirstError == Fault("FirstError")
SecondError == Fault("SecondError")
CustomError == Fault("CustomError")

\* What a block hands to bind.  The bind of doing is bindResult, which
\* takes a value or a Result; the bind of doingAsync is bindPromisedResult,
\* which also takes a promise of either.
BindArgs(f) ==
    IF f = "doing"
    THEN {Raw("a"), Ok(Raw("b")), Err(FirstError), Err(SecondError),
          Resolves(Err(FirstError))}
    ELSE IF f = "doingAsync"
    THEN {Raw("a"), Ok(Raw("b")), Err(FirstError), Err(SecondError),
          Resolves(Raw("a")), Resolves(Ok(Raw("b"))),
          Resolves(Err(FirstError)), Rejects(CustomError)}
    ELSE {}

\* What a block throws itself.
Thrown == {CustomError, Fault("GetValueError"), Null}

\* The classes a caller lists in an allow-list, and the allow-lists a caller
\* passes: any list of them for tryCatching / tryCatchingAsync.
ErrorClasses == {"CustomError", "JonadsError", "GetValueError"}
AllowLists(f) ==
    IF isCatchingFn(f)
    THEN UNION {[1..n -> ErrorClasses] : n \in 0..MaxErrors}
    ELSE {<<>>}

Stmts(f) ==
    [op : {"bind"}, arg : BindArgs(f)] \cup [op : {"throw"}, arg : Thrown]

\* What a block returns: a constant, or the value its last bind yielded.
RetExprs ==
    [op : {"const"},
     arg : {Raw("r"), Ok(Raw("b")), Err(SecondError), Rejects(CustomError)}]
        \cup [op : {"last"}, arg : {Undefined}]

Blocks(f) ==
    [stmts : UNION {[1..n -> Stmts(f)] : n \in 0..MaxStmts}, ret : RetExprs]

stmt == block.stmts[pc]

retval ==
    IF block.ret.op = "last"
    THEN IF bound = <<>> THEN Undefined ELSE bound[Len(bound)]
    ELSE block.ret.arg

\* What the caller receives: a sync entry point returns or throws, an
\* async one returns a promise that is fulfilled or rejected.
Deliver(f, c) ==
    IF isAsyncFn(f)
    THEN [c |-> IF c.c = "return" THEN "fulfilled" ELSE "rejected", v |-> c.v]
    ELSE c

Uncalled == [st |-> "uncalled", c |-> None]

\* Variant: the block does not await its binds.
Awaits_never(s) == FALSE

\* Every bind statement of an async block is written `x = await bind(arg)`.
Awaits(s) == s.op = "bind"

\* An async block sits at `await bind(...)` from the call of bind until it
\* is resumed with the settled value.
Suspended ==
    \E i \in DOMAIN binds :
        binds[i].st \in {"pending", "settled"} /\ Awaits(block.stmts[i])

\* The promise an async function returns, given how its body completes.
promiseOf(c) == IF c.c = "return" THEN Resolves(c.v) ELSE Rejects(c.v)

CanStep == phase = "block" /\ ~Suspended

(***************************************************************************)
(* Either, Result and Option (src/either, src/result, src/option)          *)
(*                                                                         *)
(* An instance is a value [tag, p]: the tag is its class (Left, Right, Ok, *)
(* Err, Some, None), p its `value` field.  A method is an operator of the  *)
(* receiver `this` and of its arguments; it yields the effect of the call. *)
(***************************************************************************)
Left(v) == [tag |-> "Left", p |-> v]
Right(v) == [tag |-> "Right", p |-> v]
Some(v) == [tag |-> "Some", p |-> v]
\* `new None(nullish)`: a None keeps the null or undefined it was made from.
NoneOf(nullish) == [tag |-> "None", p |-> nullish]

Zero == [tag |-> "number", p |-> "0"]
EmptyString == [tag |-> "string", p |-> ""]
Bool(b) == [tag |-> "boolean", p |-> IF b THEN "true" ELSE "false"]
\* The string a template literal `Cls(${value})` builds.
Text(cls, v) == [tag |-> "text", p |-> [cls |-> cls, of |-> v]]

\* new GetValueError(side)
GetValueError(side) == [tag |-> "GetValueError", p |-> side]
\* new Error(message)
NewError(message) == [tag |-> "NewError", p |-> message]

\* Functions a caller passes in.  A function is named by what it does with
\* its arguments; an async function returns a promise of the same.
Fn(name) == [tag |-> "fn", p |-> name]
AsyncFn(name) == [tag |-> "asyncfn", p |-> name]

isFunction(v) == v.tag \in {"fn", "asyncfn"}

\* What the body of the function named `name` does when called with xs.
body(name, xs) ==
    CASE name = "id" -> Return(IF xs = <<>> THEN Undefined ELSE xs[1])
      [] name = "const" -> Return(Raw("k"))
      [] name = "toNull" -> Return(Null)
      [] name = "log" -> Return(Undefined)
      [] name = "throws" -> Throw(CustomError)
      [] name = "toOk" -> Return(Ok(IF xs = <<>> THEN Undefined ELSE xs[1]))
      [] name = "toErr" -> Return(Err(SecondError))
      [] name = "toSome" ->
            Return(Some(IF xs = <<>> THEN Undefined ELSE xs[1]))
      [] name = "toNone" -> Return(NoneOf(Null))
      [] name = "mkErr" -> Return(SecondError)
      [] name = "mkMsg" -> Return(Raw("oops"))

\* f(...xs): a function returns or throws, an async function returns a
\* promise.
ap(f, xs) ==
    IF f.tag = "asyncfn" THEN Return(promiseOf(body(f.p, xs)))
    ELSE body(f.p, xs)

\* One invocation of a function passed in.
Invoked(f, xs) == <<[f |-> f, xs |-> xs]>>

\* The effect of a method call: the receiver after it, how the call
\* completed, whether the instance it hands back is the receiver itself
\* ("this"), one it constructed ("new") or neither, and the functions it
\* invoked.
Eff(this, c, ref, calls) ==
    [this |-> this, c |-> c, ref |-> ref, calls |-> calls]

\* `return new Cls(e)`, where evaluating e completes as r.
Made(this, cls, r, calls) ==
    IF r.c = "throw" THEN Eff(this, r, "none", calls)
    ELSE Eff(this, Return([tag |-> cls, p |-> r.v]), "new", calls)

\* An async method returns a promise: rejected with what its body throws,
\* following the promise its body returns, fulfilled with any other value.
Async(e) ==
    [e EXCEPT !.c =
        Return(IF e.c.c = "throw" THEN Rejects(e.c.v)
               ELSE promiseOf(awaitResolve(e.c.v)))]

\* `await e`, where evaluating e completes as r.
await(r) == IF r.c = "throw" THEN r ELSE awaitResolve(r.v)

\* `e.then(v => new Cls(v))`, where evaluating e completes as r.
thenNew(cls, r) ==
    IF r.c = "throw" THEN r
    ELSE IF r.v.tag = "resolves"
    THEN Return(Resolves([tag |-> cls, p |-> r.v.p]))
    ELSE IF r.v.tag = "rejects" THEN Return(r.v)
    ELSE Throw(Fault("TypeError"))

(***************************************************************************)
(* src/either/left.ts                                                      *)
(***************************************************************************)
\* Variant: the mapped value is stored into the receiver, which is returned.
Left_mapLeft_inPlace(this, mapper) ==
    LET r == ap(mapper, <<value(this)>>) IN
    IF r.c = "throw"
    THEN Eff(this, r, "none", Invoked(mapper, <<value(this)>>))
    ELSE Eff(Left(r.v), Return(Left(r.v)), "this",
             Invoked(mapper, <<value(this)>>))

\* Variant: the new instance is made with the class of the receiver.
Left_mapLeft_keepsClass(this, mapper) ==
    Made(this, this.tag, ap(mapper, <<this.p>>), Invoked(mapper, <<this.p>>))

Left_mapLeft(this, mapper) ==
    Made(this, "Left", ap(mapper, <<value(this)>>),
         Invoked(mapper, <<value(this)>>))

\* Variant: the fault raised is a plain JonadsError.
Left_getRightOrThrow_otherFault(this) ==
    Eff(this, Throw(Fault("JonadsError")), "none", <<>>)

Left_getRightOrThrow(this) ==
    Eff(this, Throw(GetValueError("right")), "none", <<>>)

\* Variant: the callback is called but the promise it returns is not
\* awaited.
Left_tapLeftAsync_noAwait(this, callback) ==
    LET r == ap(callback, <<this.p>>) IN
    IF r.c = "throw"
    THEN Async(Eff(this, r, "none", Invoked(callback, <<this.p>>)))
    ELSE Async(Eff(this, Return(this), "this",
                   Invoked(callback, <<this.p>>)))

Left_tapLeftAsync(this, callback) ==
    LET r == await(ap(callback, <<value(this)>>)) IN
    IF r.c = "throw"
    THEN Async(Eff(this, r, "none", Invoked(callback, <<value(this)>>)))
    ELSE Async(Eff(this, Return(this), "this",
                   Invoked(callback, <<value(this)>>)))

\* this.m(...xs) for the methods class Left defines.
LeftCall(this, m, xs) ==
    LET fallback == xs[1]  mapper == xs[1]  callback == xs[1]
        error == xs[1]  message == xs[1]
        onLeft == xs[1]  onRight == xs[2]
    IN
    CASE m = "isLeft" -> Eff(this, Return(Bool(TRUE)), "none", <<>>)
      [] m = "isRight" -> Eff(this, Return(Bool(FALSE)), "none", <<>>)
      [] m = "leftOr" -> Eff(this, Return(value(this)), "none", <<>>)
      [] m = "leftOrAsync" ->
            (Async(Eff(this, Return(value(this)), "none", <<>>)))
      [] m = "rightOr" ->
            (IF isFunction(fallback)
             THEN Eff(this, ap(fallback, <<value(this)>>), "none",
                      Invoked(fallback, <<value(this)>>))
             ELSE Eff(this, Return(fallback), "none", <<>>))
      [] m = "rightOrAsync" ->
            (IF isFunction(fallback)
             THEN Async(Eff(this, await(ap(fallback, <<value(this)>>)), "none",
                            Invoked(fallback, <<value(this)>>)))
             ELSE Async(Eff(this, awaitResolve(fallback), "none", <<>>)))
      [] m = "mapLeft" -> Left_mapLeft(this, mapper)
      [] m = "mapLeftAsync" ->
            (LET r == thenNew("Left", ap(mapper, <<value(this)>>)) IN
             Async(Eff(this, r, IF r.c = "throw" \/ r.v.tag = "rejects"
                                THEN "none" ELSE "new",
                       Invoked(mapper, <<value(this)>>))))
      [] m = "mapRight" -> Made(this, "Left", Return(value(this)), <<>>)
      [] m = "mapRightAsync" ->
            (Async(Made(this, "Left", Return(value(this)), <<>>)))
      [] m = "tapLeft" ->
            (LET r == ap(callback, <<value(this)>>) IN
             IF r.c = "throw"
             THEN Eff(this, r, "none", Invoked(callback, <<value(this)>>))
             ELSE Eff(this, Return(this), "this",
                      Invoked(callback, <<value(this)>>)))
      [] m = "tapLeftAsync" -> Left_tapLeftAsync(this, callback)
      [] m = "tapRight" -> Eff(this, Return(this), "this", <<>>)
      [] m = "tapRightAsync" -> Async(Eff(this, Return(this), "this", <<>>))
      [] m = "match" ->
            (Eff(this, ap(onLeft, <<value(this)>>), "none",
                 Invoked(onLeft, <<value(this)>>)))
      [] m = "matchAsync" ->
            (Async(Eff(this, ap(onLeft, <<value(this)>>), "none",
                       Invoked(onLeft, <<value(this)>>))))
      [] m = "getLeftOrThrow" -> Eff(this, Return(value(this)), "none", <<>>)
      [] m = "getRightOrThrow" -> Left_getRightOrThrow(this)
      [] m = "toString" ->
            (Eff(this, Return(Text("Left", value(this))), "none", <<>>))

(***************************************************************************)
(* src/either/right.ts                                                     *)
(***************************************************************************)
\* Variant: a fallback function is handed back, not called.
Right_leftOr_noCall(this, fallback) ==
    Eff(this, Return(fallback), "none", <<>>)

Right_leftOr(this, fallback) ==
    IF isFunction(fallback)
    THEN Eff(this, ap(fallback, <<value(this)>>), "none",
             Invoked(fallback, <<value(this)>>))
    ELSE Eff(this, Return(fallback), "none", <<>>)

\* Variant: the fault names the side the instance holds.
Right_getLeftOrThrow_wrongSide(this) ==
    Eff(this, Throw(GetValueError("right")), "none", <<>>)

Right_getLeftOrThrow(this) ==
    Eff(this, Throw(GetValueError("left")), "none", <<>>)

\* this.m(...xs) for the methods class Right defines.
RightCall(this, m, xs) ==
    LET fallback == xs[1]  mapper == xs[1]  callback == xs[1]
        error == xs[1]  message == xs[1]
        onLeft == xs[1]  onRight == xs[2]
    IN
    CASE m = "isLeft" -> Eff(this, Return(Bool(FALSE)), "none", <<>>)
      [] m = "isRight" -> Eff(this, Return(Bool(TRUE)), "none", <<>>)
      [] m = "leftOr" -> Right_leftOr(this, fallback)
      [] m = "leftOrAsync" ->
            (IF isFunction(fallback)
             THEN Async(Eff(this, await(ap(fallback, <<value(this)>>)), "none",
                            Invoked(fallback, <<value(this)>>)))
             ELSE Async(Eff(this, awaitResolve(fallback), "none", <<>>)))
      [] m = "rightOr" -> Eff(this, Return(value(this)), "none", <<>>)
      [] m = "rightOrAsync" ->
            (Async(Eff(this, Return(value(this)), "none", <<>>)))
      [] m = "mapLeft" -> Made(this, "Right", Return(value(this)), <<>>)
      [] m = "mapLeftAsync" ->
            (Async(Made(this, "Right", Return(value(this)), <<>>)))
      [] m = "mapRight" ->
            (Made(this, "Right", ap(mapper, <<value(this)>>),
                  Invoked(mapper, <<value(this)>>)))
      [] m = "mapRightAsync" ->
            (LET r == thenNew("Right", ap(mapper, <<value(this)>>)) IN
             Async(Eff(this, r, IF r.c = "throw" \/ r.v.tag = "rejects"
                                THEN "none" ELSE "new",
                       Invoked(mapper, <<value(this)>>))))
      [] m = "tapLeft" -> Eff(this, Return(this), "this", <<>>)
      [] m = "tapLeftAsync" -> Async(Eff(this, Return(this), "this", <<>>))
      [] m = "tapRight" ->
            (LET r == ap(callback, <<value(this)>>) IN
             IF r.c = "throw"
             THEN Eff(this, r, "none", Invoked(callback, <<value(this)>>))
             ELSE Eff(this, Return(this), "this",
                      Invoked(callback, <<value(this)>>)))
      [] m = "tapRightAsync" ->
            (LET r == await(ap(callback, <<value(this)>>)) IN
             IF r.c = "throw"
             THEN Async(Eff(this, r, "none",
                            Invoked(callback, <<value(this)>>)))
             ELSE Async(Eff(this, Return(this), "this",
                            Invoked(callback, <<value(this)>>))))
      [] m = "match" ->
            (Eff(this, ap(onRight, <<value(this)>>), "none",
                 Invoked(onRight, <<value(this)>>)))
      [] m = "matchAsync" ->
            (Async(Eff(this, ap(onRight, <<value(this)>>), "none",
                       Invoked(onRight, <<value(this)>>))))
      [] m = "getLeftOrThrow" -> Right_getLeftOrThrow(this)
      [] m = "getRightOrThrow" -> Eff(this, Return(value(this)), "none", <<>>)
      [] m = "toString" ->
            (Eff(this, Return(Text("Right", value(this))), "none", <<>>))

(***************************************************************************)
(* src/option/option.ts: the constructors                                  *)
(***************************************************************************)
\* isNullish(value), the guard Option.from tests.
isNullish(v) == v = Null \/ v = Undefined

\* Variant: every falsy value counts as absent.
Option_from_falsy(v) ==
    IF v \in {Null, Undefined, Zero, EmptyString} THEN NoneOf(v) ELSE Some(v)

Option_from(v) == IF isNullish(v) THEN NoneOf(v) ELSE Some(v)

Option_none == NoneOf(Null)

\* Option.isInstance: value instanceof Some || value instanceof None.
Option_isInstance(v) == v.tag \in {"Some", "None"}

\* Either.isInstance: value instanceof Left || value instanceof Right; Ok
\* and Some extend Left, Err and None extend Right.
Either_isInstance(v) ==
    v.tag \in {"Left", "Ok", "Some"} \/ v.tag \in {"Right", "Err", "None"}

(***************************************************************************)
(* src/result/ok.ts                                                        *)
(***************************************************************************)
\* Variant: every payload, null and undefined included, is wrapped in a Some.
Ok_someOrNone_always(this) ==
    Eff(this, Return([tag |-> "Some", p |-> this.p]), "new", <<>>)

Ok_someOrNone(this) == Eff(this, Return(Option_from(value(this))), "new", <<>>)

\* this.m(...xs) for the methods class Ok defines; the others are
\* inherited from Left.
OkCall(this, m, xs) ==
    LET fallback == xs[1]  mapper == xs[1]  callback == xs[1]
        error == xs[1]  message == xs[1]
        onLeft == xs[1]  onRight == xs[2]
    IN
    CASE m = "isOk" -> LeftCall(this, "isLeft", xs)
      [] m = "isErr" -> LeftCall(this, "isRight", xs)
      [] m = "valueOr" -> LeftCall(this, "leftOr", xs)
      [] m = "valueOrAsync" -> Async(LeftCall(this, "leftOrAsync", xs))
      [] m = "map" ->
            (Made(this, "Ok", ap(mapper, <<value(this)>>),
                  Invoked(mapper, <<value(this)>>)))
      [] m = "mapAsync" ->
            (Async(Made(this, "Ok", await(ap(mapper, <<value(this)>>)),
                        Invoked(mapper, <<value(this)>>))))
      [] m = "mapErr" -> Made(this, "Ok", Return(value(this)), <<>>)
      [] m = "mapErrAsync" ->
            (Async(Made(this, "Ok", Return(value(this)), <<>>)))
      [] m = "andThen" ->
            (Eff(this, ap(mapper, <<value(this)>>), "none",
                 Invoked(mapper, <<value(this)>>)))
      [] m = "andThenAsync" ->
            (Async(Eff(this, ap(mapper, <<value(this)>>), "none",
                       Invoked(mapper, <<value(this)>>))))
      [] m = "someOrNone" -> Ok_someOrNone(this)
      [] m = "asNullable" ->
            (Made(this, "Ok", Return(Option_from(value(this))), <<>>))
      [] m = "toString" ->
            (Eff(this, Return(Text("Ok", value(this))), "none", <<>>))
      [] OTHER -> LeftCall(this, m, xs)

(***************************************************************************)
(* src/result/err.ts                                                       *)
(***************************************************************************)
\* Variant: andThen applies the mapper on an Err as well.
Err_andThen_appliesMapper(this, mapper) ==
    Eff(this, ap(mapper, <<value(this)>>), "none",
        Invoked(mapper, <<value(this)>>))

Err_andThen(this, mapper) == Made(this, "Err", Return(value(this)), <<>>)

\* Variant: map applies the mapper to the error.
Err_map_appliesMapper(this, mapper) ==
    Made(this, "Err", ap(mapper, <<this.p>>), Invoked(mapper, <<this.p>>))

Err_map(this, mapper) == Made(this, "Err", Return(value(this)), <<>>)

\* this.m(...xs) for the methods class Err defines; the others are
\* inherited from Right.
ErrCall(this, m, xs) ==
    LET fallback == xs[1]  mapper == xs[1]  callback == xs[1]
        error == xs[1]  message == xs[1]
        onLeft == xs[1]  onRight == xs[2]
    IN
    CASE m = "isOk" -> RightCall(this, "isLeft", xs)
      [] m = "isErr" -> RightCall(this, "isRight", xs)
      [] m = "valueOr" -> RightCall(this, "leftOr", xs)
      [] m = "valueOrAsync" -> Async(RightCall(this, "leftOrAsync", xs))
      [] m = "map" -> Err_map(this, mapper)
      [] m = "mapAsync" -> Async(Made(this, "Err", Return(value(this)), <<>>))
      [] m = "mapErr" ->
            (Made(this, "Err", ap(mapper, <<value(this)>>),
                  Invoked(mapper, <<value(this)>>)))
      [] m = "mapErrAsync" ->
            (Async(Made(this, "Err", await(ap(mapper, <<value(this)>>)),
                        Invoked(mapper, <<value(this)>>))))
      [] m = "andThen" -> Err_andThen(this, mapper)
      [] m = "andThenAsync" ->
            (Async(Made(this, "Err", Return(value(this)), <<>>)))
      [] m = "someOrNone" -> Eff(this, Return(Option_none), "new", <<>>)
      [] m = "asNullable" -> Made(this, "Err", Return(value(this)), <<>>)
      [] m = "toString" ->
            (Eff(this, Return(Text("Err", value(this))), "none", <<>>))
      [] OTHER -> RightCall(this, m, xs)

(***************************************************************************)
(* src/option/some.ts                                                      *)
(***************************************************************************)
\* okOrError / okOrErrorAsync of a Some: a present value gives Ok(value).
Some_okOrError(this, message) ==
    Eff(this, Return(Result_ok(value(this))), "new", <<>>)

\* this.m(...xs) for the methods class Some defines; the others are
\* inherited from Left.
SomeCall(this, m, xs) ==
    LET fallback == xs[1]  mapper == xs[1]  callback == xs[1]
        error == xs[1]  message == xs[1]
        onLeft == xs[1]  onRight == xs[2]
    IN
    CASE m = "isSome" -> Eff(this, Return(Bool(TRUE)), "none", <<>>)
      [] m = "isNone" -> Eff(this, Return(Bool(FALSE)), "none", <<>>)
      [] m = "valueOr" -> Eff(this, Return(value(this)), "none", <<>>)
      [] m = "valueOrAsync" ->
            (Async(Eff(this, Return(value(this)), "none", <<>>)))
      [] m = "map" ->
            (Made(this, "Some", ap(mapper, <<value(this)>>),
                  Invoked(mapper, <<value(this)>>)))
      [] m = "mapAsync" ->
            (Async(Made(this, "Some", await(ap(mapper, <<value(this)>>)),
                        Invoked(mapper, <<value(this)>>))))
      [] m = "andThen" ->
            (Eff(this, ap(mapper, <<value(this)>>), "none",
                 Invoked(mapper, <<value(this)>>)))
      [] m = "andThenAsync" ->
            (Async(Eff(this, ap(mapper, <<value(this)>>), "none",
                       Invoked(mapper, <<value(this)>>))))
      [] m = "okOr" -> Eff(this, Return(Result_ok(value(this))), "new", <<>>)
      [] m = "okOrAsync" ->
            (Async(Eff(this, Return(Result_ok(value(this))), "new", <<>>)))
      [] m = "okOrError" -> Some_okOrError(this, message)
      [] m = "okOrErrorAsync" -> Async(Some_okOrError(this, message))
      [] m = "toString" ->
            (Eff(this, Return(Text("Some", value(this))), "none", <<>>))
      [] OTHER -> LeftCall(this, m, xs)

(***************************************************************************)
(* src/option/none.ts                                                      *)
(***************************************************************************)
\* Result.error(message): new Err(new Error(message)).
Result_error(message) == Err(NewError(message))

\* Variant: a factory is wrapped as it is, not called.
None_okOr_wrapsFactory(this, error) ==
    Eff(this, Return([tag |-> "Err", p |-> error]), "new", <<>>)

None_okOr(this, error) ==
    IF isFunction(error)
    THEN Made(this, "Err", ap(error, <<>>), Invoked(error, <<>>))
    ELSE Made(this, "Err", Return(error), <<>>)

\* this.m(...xs) for the methods class None defines; the others are
\* inherited from Right.
NoneCall(this, m, xs) ==
    LET fallback == xs[1]  mapper == xs[1]  callback == xs[1]
        error == xs[1]  message == xs[1]
        onLeft == xs[1]  onRight == xs[2]
    IN
    CASE m = "isSome" -> Eff(this, Return(Bool(FALSE)), "none", <<>>)
      [] m = "isNone" -> Eff(this, Return(Bool(TRUE)), "none", <<>>)
      \* A fallback function is a producer: it is called without arguments.
      [] m = "valueOr" ->
            (IF isFunction(fallback)
             THEN Eff(this, ap(fallback, <<>>), "none", Invoked(fallback, <<>>))
             ELSE Eff(this, Return(fallback), "none", <<>>))
      [] m = "valueOrAsync" ->
            (IF isFunction(fallback)
             THEN Async(Eff(this, await(ap(fallback, <<>>)), "none",
                            Invoked(fallback, <<>>)))
             ELSE Async(Eff(this, awaitResolve(fallback), "none", <<>>)))
      [] m = "map" -> Made(this, "None", Return(value(this)), <<>>)
      [] m = "mapAsync" ->
            (Async(Made(this, "None", Return(value(this)), <<>>)))
      [] m = "andThen" -> Made(this, "None", Return(value(this)), <<>>)
      [] m = "andThenAsync" ->
            (Async(Made(this, "None", Return(value(this)), <<>>)))
      [] m = "okOr" -> None_okOr(this, error)
      [] m = "okOrAsync" ->
            (IF isFunction(error)
             THEN Async(Made(this, "Err", await(ap(error, <<>>)),
                             Invoked(error, <<>>)))
             ELSE Async(Made(this, "Err", awaitResolve(error), <<>>)))
      [] m = "okOrError" ->
            (LET r == IF isFunction(message) THEN ap(message, <<>>)
                      ELSE Return(message)
                 calls == IF isFunction(message) THEN Invoked(message, <<>>)
                          ELSE <<>>
             IN  IF r.c = "throw" THEN Eff(this, r, "none", calls)
                 ELSE Eff(this, Return(Result_err(NewError(r.v))), "new",
                          calls))
      [] m = "okOrErrorAsync" ->
            (LET r == IF isFunction(message) THEN await(ap(message, <<>>))
                      ELSE awaitResolve(message)
                 calls == IF isFunction(message) THEN Invoked(message, <<>>)
                          ELSE <<>>
             IN  IF r.c = "throw" THEN Async(Eff(this, r, "none", calls))
                 ELSE Async(Eff(this, Return(Result_error(r.v)), "new", calls)))
      [] m = "toString" ->
            (Eff(this, Return(Text("None", Undefined)), "none", <<>>))
      [] OTHER -> RightCall(this, m, xs)

(***************************************************************************)
(* Method calls: this.m(...xs) runs the method of the class of `this`, or  *)
(* the one it inherits (Ok and Some extend Left, Err and None extend       *)
(* Right).                                                                 *)
(***************************************************************************)

invoke(this, m, xs) ==
    CASE this.tag = "Left" -> LeftCall(this, m, xs)
      [] this.tag = "Right" -> RightCall(this, m, xs)
      [] this.tag = "Ok" -> OkCall(this, m, xs)
      [] this.tag = "Err" -> ErrCall(this, m, xs)
      [] this.tag = "Some" -> SomeCall(this, m, xs)
      [] this.tag = "None" -> NoneCall(this, m, xs)

(***************************************************************************)
(* Option.transpose (src/option/option.ts) and Result.transpose            *)
(* (src/result/result.ts)                                                  *)
(***************************************************************************)
\* The values that have a method `map`: the Results and the Options.
hasMap(v) == v.tag \in {"Ok", "Err", "Some", "None"}

\* Variant: the failure inside a Some is kept wrapped in the Some.
Option_transpose_wrapsErr(option) ==
    IF option.tag \in {"Left", "Ok", "Some"}
    THEN IF option.p.tag \in {"Ok", "Err"}
         THEN Return([tag |-> "Ok", p |-> [tag |-> "Some", p |-> option.p.p]])
         ELSE Throw([tag |-> "Error", p |-> "TypeError"])
    ELSE Return([tag |-> "Ok", p |-> [tag |-> "None", p |-> Null]])

\* Variant: an absent Option is transposed into an Ok of a Some of null.
Option_transpose_noneIsPresent(option) ==
    IF option.tag \in {"Left", "Ok", "Some"}
    THEN IF option.p.tag \in {"Ok", "Err", "Some", "None"}
         THEN invoke(option.p, "map", <<Fn("toSome")>>).c
         ELSE Throw([tag |-> "Error", p |-> "TypeError"])
    ELSE Return([tag |-> "Ok", p |-> [tag |-> "Some", p |-> Null]])

\* option.match(some_result => some_result.map(value => new Some(value)),
\*              () => Result.ok(Option.none()))
Option_transpose(option) ==
    IF isLeft(option)
    THEN IF hasMap(value(option))
         THEN invoke(value(option), "map", <<Fn("toSome")>>).c
         ELSE Throw(Fault("TypeError"))
    ELSE Return(Result_ok(Option_none))

\* Variant: a failure is transposed into an absent Option.
Result_transpose_dropsErr(result) ==
    IF result.tag \in {"Left", "Ok", "Some"}
    THEN IF result.p.tag \in {"Ok", "Err", "Some", "None"}
         THEN invoke(result.p, "map", <<Fn("toOk")>>).c
         ELSE Throw([tag |-> "Error", p |-> "TypeError"])
    ELSE Return([tag |-> "None", p |-> Null])

\* result.match(option => option.map(value => Result.ok(value)),
\*              error => Option.from(Result.err(error)))
Result_transpose(result) ==
    IF isLeft(result)
    THEN IF hasMap(value(result))
         THEN invoke(value(result), "map", <<Fn("toOk")>>).c
         ELSE Throw(Fault("TypeError"))
    ELSE Return(Option_from(Result_err(value(result))))

(***************************************************************************)
(* What callers construct and pass                                         *)
(***************************************************************************)
Ctors ==
    {"Either.left", "Either.right", "Result.ok", "Result.err", "Option.from",
     "Option.none"}

CtorArgs(name) ==
    CASE name \in {"Either.left", "Either.right"} -> {Raw("a"), Null}
      [] name = "Result.ok" ->
            {Raw("a"), Null, Undefined, Some(Raw("a")), NoneOf(Null)}
      [] name = "Result.err" -> {FirstError}
      [] name = "Option.from" ->
            {Raw("a"), Zero, EmptyString, Null, Undefined, Ok(Raw("a")),
             Ok(Null), Err(FirstError)}
      [] name = "Option.none" -> {Undefined}

construct(name, x) ==
    CASE name = "Either.left" -> Left(x)
      [] name = "Either.right" -> Right(x)
      [] name = "Result.ok" -> Result_ok(x)
      [] name = "Result.err" -> Result_err(x)
      [] name = "Option.from" -> Option_from(x)
      [] name = "Option.none" -> Option_none

isResult(e) == e.tag \in {"Ok", "Err"}
isOption(e) == e.tag \in {"Some", "None"}

EitherMethods ==
    {"isLeft", "isRight", "leftOr", "leftOrAsync", "rightOr", "rightOrAsync",
     "mapLeft", "mapLeftAsync", "mapRight", "mapRightAsync", "tapLeft",
     "tapLeftAsync", "tapRight", "tapRightAsync", "match", "matchAsync",
     "getLeftOrThrow", "getRightOrThrow", "toString"}
ResultMethods ==
    {"isOk", "isErr", "valueOr", "valueOrAsync", "map", "mapAsync", "mapErr",
     "mapErrAsync", "andThen", "andThenAsync", "someOrNone", "asNullable"}
OptionMethods ==
    {"isSome", "isNone", "valueOr", "valueOrAsync", "map", "mapAsync",
     "andThen", "andThenAsync", "okOr", "okOrAsync", "okOrError",
     "okOrErrorAsync"}

MethodsOf(this) ==
    EitherMethods \cup (IF isResult(this) THEN ResultMethods ELSE {})
                  \cup (IF isOption(this) THEN OptionMethods ELSE {})

\* The argument lists a caller passes to this.m.
ArgLists(this, m) ==
    CASE m \in {"leftOr", "rightOr", "valueOr"} ->
            {<<a>> : a \in {Raw("f"), Fn("id"), Fn("const"), Fn("throws")}}
      [] m \in {"leftOrAsync", "rightOrAsync", "valueOrAsync"} ->
            {<<a>> : a \in {Raw("f"), Resolves(Raw("f")),
                            Rejects(CustomError), AsyncFn("id"),
                            AsyncFn("throws")}}
      [] m \in {"mapLeft", "mapRight", "map", "mapErr"} ->
            {<<a>> : a \in {Fn("id"), Fn("toNull"), Fn("throws")}}
      [] m \in {"mapLeftAsync", "mapRightAsync", "mapAsync", "mapErrAsync"} ->
            {<<a>> : a \in {AsyncFn("id"), AsyncFn("toNull"),
                            AsyncFn("throws")}}
      [] m \in {"tapLeft", "tapRight"} ->
            {<<a>> : a \in {Fn("log"), Fn("throws")}}
      [] m \in {"tapLeftAsync", "tapRightAsync"} ->
            {<<a>> : a \in {AsyncFn("log"), AsyncFn("throws")}}
      [] m = "match" ->
            {<<a, b>> : a \in {Fn("id"), Fn("throws")},
                        b \in {Fn("const"), Fn("throws")}}
      [] m = "matchAsync" ->
            {<<a, b>> : a \in {AsyncFn("id"), AsyncFn("throws")},
                        b \in {AsyncFn("const"), AsyncFn("throws")}}
      [] m = "andThen" ->
            IF isResult(this)
            THEN {<<a>> : a \in {Fn("toOk"), Fn("toErr"), Fn("throws")}}
            ELSE {<<a>> : a \in {Fn("toSome"), Fn("toNone"), Fn("throws")}}
      [] m = "andThenAsync" ->
            IF isResult(this)
            THEN {<<a>> : a \in {AsyncFn("toOk"), AsyncFn("toErr"),
                                 AsyncFn("throws")}}
            ELSE {<<a>> : a \in {AsyncFn("toSome"), AsyncFn("toNone"),
                                 AsyncFn("throws")}}
      [] m = "okOr" ->
            {<<a>> : a \in {SecondError, Fn("mkErr"), Fn("throws")}}
      [] m = "okOrAsync" ->
            {<<a>> : a \in {SecondError, Resolves(SecondError),
                            AsyncFn("mkErr"), AsyncFn("throws")}}
      [] m = "okOrError" ->
            {<<a>> : a \in {Raw("oops"), Fn("mkMsg"), Fn("throws")}}
      [] m = "okOrErrorAsync" ->
            {<<a>> : a \in {Raw("oops"), Resolves(Raw("oops")),
                            AsyncFn("mkMsg"), AsyncFn("throws")}}
      [] OTHER -> {<<>>}

Statics == {"Option.transpose", "Result.transpose"}

\* Each transpose is handed a Result or an Option whose payload, when it is
\* present, is itself a Result or an Option: callers compose the two
\* transposes in either order.
TakenBy(f, x) ==
    /\ isResult(x) \/ isOption(x)
    /\ isLeft(x) => isResult(value(x)) \/ isOption(value(x))

static(f, x) ==
    IF f = "Option.transpose" THEN Option_transpose(x)
    ELSE Result_transpose(x)

NoCtor == [name |-> "none", arg |-> Undefined]
NoOp == [m |-> "none", xs |-> <<>>]
NoPrev == [op |-> NoOp, c |-> None]

\* No instance is constructed yet.
OpsIdle ==
    /\ ctor = NoCtor
    /\ recv = Undefined
    /\ created = Undefined
    /\ op = NoOp
    /\ opResult = None
    /\ opRef = "none"
    /\ opCalls = <<>>
    /\ opPrev = NoPrev
    /\ nops = 0

\* No invocation is in progress.
NestIdle ==
    /\ nestFn = "doing"
    /\ frames = <<>>
    /\ nestEnded = None
    /\ nestRet = Undefined
    /\ nestOutcome = None

(***************************************************************************)
(* Actions                                                                 *)
(***************************************************************************)
Init ==
    /\ phase = "idle"
    /\ fn = "doing"
    /\ catchall = TRUE
    /\ allowed = <<>>
    /\ block = [stmts |-> <<>>, ret |-> [op |-> "last", arg |-> Undefined]]
    /\ pc = 1
    /\ binds = <<>>
    /\ bound = <<>>
    /\ trace = <<>>
    /\ blockCompletion = None
    /\ tryCompletion = None
    /\ outcome = None
    /\ OpsIdle
    /\ NestIdle

\* The caller invokes f(b) (trying, tryingAsync), f(es, b) (tryCatching,
\* tryCatchingAsync) or f(b, ca) (doing, doingAsync); the entry point calls
\* the block inside the try of trying / tryCatching.
Call(f, ca, es, b) ==
    /\ phase = "idle"
    /\ phase' = "block"
    /\ fn' = f
    /\ catchall' = ca
    /\ allowed' = es
    /\ block' = b
    /\ binds' = [i \in 1..Len(b.stmts) |-> Uncalled]
    /\ UNCHANGED <<pc, bound, trace, blockCompletion, tryCompletion, outcome>>
    /\ UNCHANGED opsVars
    /\ UNCHANGED nestVars

Invoke ==
    /\ phase = "idle"
    /\ \E f \in Fns : \E ca \in (IF isDoingFn(f) THEN BOOLEAN ELSE {TRUE}) :
         \E es \in AllowLists(f) : \E b \in Blocks(f) : Call(f, ca, es, b)

\* doing: the block executes `x = bind(arg)`; bind is bindResult.
BindSync ==
    /\ CanStep /\ fn = "doing"
    /\ pc <= Len(block.stmts) /\ stmt.op = "bind"
    /\ LET c == bindResult(stmt.arg) IN
        /\ binds' = [binds EXCEPT ![pc] = [st |-> "done", c |-> c]]
        /\ trace' = Append(trace, pc)
        /\ IF c.c = "return"
           THEN /\ bound' = Append(bound, c.v)
                /\ pc' = pc + 1
                /\ UNCHANGED <<phase, blockCompletion>>
           ELSE /\ blockCompletion' = c
                /\ phase' = "try"
                /\ UNCHANGED <<bound, pc>>
    /\ UNCHANGED <<fn, catchall, allowed, block, tryCompletion, outcome>>
    /\ UNCHANGED opsVars
    /\ UNCHANGED nestVars

\* doingAsync: the block executes `x = await bind(arg)`; bind is
\* bindPromisedResult, which suspends at its own await.
BindCall ==
    /\ CanStep /\ fn = "doingAsync"
    /\ pc <= Len(block.stmts) /\ stmt.op = "bind"
    /\ binds' = [binds EXCEPT ![pc] = [st |-> "pending", c |-> None]]
    /\ trace' = Append(trace, pc)
    /\ IF Awaits(stmt)
       THEN UNCHANGED <<pc, bound>>
       ELSE /\ pc' = pc + 1
            /\ bound' = Append(bound, promiseOf(bindPromisedResult(stmt.arg)))
    /\ UNCHANGED <<phase, fn, catchall, allowed, block, blockCompletion,
                   tryCompletion, outcome>>
    /\ UNCHANGED opsVars
    /\ UNCHANGED nestVars

\* bindPromisedResult resumes after its await and settles its promise.
BindSettle(i) ==
    /\ phase = "block" /\ binds[i].st = "pending"
    /\ binds' = [binds EXCEPT ![i] =
                    [st |-> "settled",
                     c |-> bindPromisedResult(block.stmts[i].arg)]]
    /\ UNCHANGED <<phase, fn, catchall, allowed, block, pc, bound, trace,
                   blockCompletion, tryCompletion, outcome>>
    /\ UNCHANGED opsVars
    /\ UNCHANGED nestVars

\* The block resumes from `await bind(...)`: with the value, or with the
\* fault the bind rejected with, which the block does not handle.
BlockResume(i) ==
    /\ phase = "block" /\ binds[i].st = "settled"
    /\ i = pc /\ Awaits(block.stmts[i])
    /\ binds' = [binds EXCEPT ![i].st = "done"]
    /\ IF binds[i].c.c = "return"
       THEN /\ bound' = Append(bound, binds[i].c.v)
            /\ pc' = pc + 1
            /\ UNCHANGED <<phase, blockCompletion>>
       ELSE /\ blockCompletion' = binds[i].c
            /\ phase' = "try"
            /\ UNCHANGED <<bound, pc>>
    /\ UNCHANGED <<fn, catchall, allowed, block, trace, tryCompletion,
                   outcome>>
    /\ UNCHANGED opsVars
    /\ UNCHANGED nestVars

\* The block executes `throw F`.
ExecThrow ==
    /\ CanStep
    /\ pc <= Len(block.stmts) /\ stmt.op = "throw"
    /\ trace' = Append(trace, pc)
    /\ blockCompletion' = Throw(stmt.arg)
    /\ phase' = "try"
    /\ UNCHANGED <<fn, catchall, allowed, block, pc, binds, bound,
                   tryCompletion, outcome>>
    /\ UNCHANGED opsVars
    /\ UNCHANGED nestVars

\* The block reaches its return.  trying and tryCatching take the value
\* returned; their async forms await it (`await block()`).
ExecReturn ==
    /\ CanStep
    /\ pc = Len(block.stmts) + 1
    /\ blockCompletion' =
            IF isAsyncFn(fn) THEN awaitResolve(retval) ELSE Return(retval)
    /\ phase' = "try"
    /\ UNCHANGED <<fn, catchall, allowed, block, pc, binds, bound, trace,
                   tryCompletion, outcome>>
    /\ UNCHANGED opsVars
    /\ UNCHANGED nestVars

\* The try around the call of the block completes.
Guarded ==
    CASE fn = "trying" -> trying(blockCompletion)
      [] fn = "tryingAsync" -> tryingAsync(blockCompletion)
      [] fn = "doing" -> tryCatching(catchingErrors(catchall), blockCompletion)
      [] fn = "doingAsync" ->
            tryCatchingAsync(catchingErrors(catchall), blockCompletion)
      [] fn = "tryCatching" -> tryCatching(allowed, blockCompletion)
      [] fn = "tryCatchingAsync" -> tryCatchingAsync(allowed, blockCompletion)

TryStep ==
    /\ phase = "try"
    /\ tryCompletion' = Guarded
    /\ IF isDoingFn(fn) /\ Guarded.c = "return"
       THEN /\ phase' = "handle"
            /\ UNCHANGED outcome
       ELSE /\ phase' = "done"
            /\ outcome' = Deliver(fn, Guarded)
    /\ UNCHANGED <<fn, catchall, allowed, block, pc, binds, bound, trace,
                   blockCompletion>>
    /\ UNCHANGED opsVars
    /\ UNCHANGED nestVars

\* doing / doingAsync: `return handleDoingResult(result)`.
HandleStep ==
    /\ phase = "handle"
    /\ outcome' = Deliver(fn, Return(handleDoingResult(tryCompletion.v)))
    /\ phase' = "done"
    /\ UNCHANGED <<fn, catchall, allowed, block, pc, binds, bound, trace,
                   blockCompletion, tryCompletion>>
    /\ UNCHANGED opsVars
    /\ UNCHANGED nestVars

Next ==
    \/ Invoke
    \/ BindSync
    \/ BindCall
    \/ \E i \in DOMAIN binds : BindSettle(i)
    \/ \E i \in DOMAIN binds : BlockResume(i)
    \/ ExecThrow
    \/ ExecReturn
    \/ TryStep
    \/ HandleStep

Spec == Init /\ [][Next]_vars

TypeOK ==
    /\ phase \in {"idle", "block", "try", "handle", "done"}
    /\ fn \in Fns
    /\ catchall \in BOOLEAN
    /\ Len(allowed) <= MaxErrors
    /\ pc \in 1..(Len(block.stmts) + 1)
    /\ Len(bound) <= Len(trace)

(***************************************************************************)
(* Actions on one instance                                                 *)
(***************************************************************************)
\* The caller constructs an instance.
Construct(name, x) ==
    /\ ctor = NoCtor
    /\ ctor' = [name |-> name, arg |-> x]
    /\ recv' = construct(name, x)
    /\ created' = construct(name, x)
    /\ UNCHANGED <<op, opResult, opRef, opCalls, opPrev, nops>>
    /\ UNCHANGED blockVars
    /\ UNCHANGED nestVars

\* The caller calls recv.m(...xs).
CallMethod(m, xs) ==
    /\ ctor # NoCtor /\ nops < MaxOps
    /\ LET e == invoke(recv, m, xs) IN
        /\ recv' = e.this
        /\ opResult' = e.c
        /\ opRef' = e.ref
        /\ opCalls' = e.calls
    /\ op' = [m |-> m, xs |-> xs]
    /\ opPrev' = NoPrev
    /\ nops' = nops + 1
    /\ UNCHANGED <<ctor, created>>
    /\ UNCHANGED blockVars
    /\ UNCHANGED nestVars

\* The caller calls Option.transpose(x) or Result.transpose(x), x being
\* the instance (from = "recv") or what the last call returned (from =
\* "result").
CallStatic(f, from) ==
    /\ ctor # NoCtor /\ nops < MaxOps
    /\ from = "result" => opResult.c = "return"
    /\ LET x == IF from = "recv" THEN recv ELSE opResult.v IN
        /\ hasMap(x) /\ TakenBy(f, x)
        /\ opResult' = static(f, x)
        /\ op' = [m |-> f, xs |-> <<x>>]
    /\ opRef' = "new"
    /\ opCalls' = <<>>
    /\ opPrev' = IF from = "result" THEN [op |-> op, c |-> opResult]
                 ELSE NoPrev
    /\ nops' = nops + 1
    /\ UNCHANGED <<ctor, recv, created>>
    /\ UNCHANGED blockVars
    /\ UNCHANGED nestVars

NextOps ==
    \/ \E name \in Ctors : \E x \in CtorArgs(name) : Construct(name, x)
    \/ \E m \in MethodsOf(recv) : \E xs \in ArgLists(recv, m) :
            CallMethod(m, xs)
    \/ \E f \in Statics : \E from \in {"recv", "result"} : CallStatic(f, from)

SpecOps == Init /\ [][NextOps]_vars

(***************************************************************************)
(* Nested invocations.  A block may call doing / doingAsync itself, as     *)
(* `x = doing(...)` or straight inside a bind, `x = bind(doing(...))`; in  *)
(* an async block the two are `x = await doingAsync(...)` and              *)
(* `x = await bind(doingAsync(...))`.  Every block is handed the same      *)
(* function as its bind.                                                   *)
(***************************************************************************)
\* Variant: bind raises the error of an Err itself, not the signal.
bindOf_raisesError(f, a) ==
    LET x == IF f = "doingAsync" /\ a.tag = "resolves" THEN a.p ELSE a IN
    IF f = "doingAsync" /\ a.tag = "rejects" THEN Throw(a.p)
    ELSE IF x.tag = "Err" THEN Throw(x.p)
    ELSE IF x.tag = "Ok" THEN Return(x.p)
    ELSE Return(x)

\* The bind a block of f is handed, applied to a.
bindOf(f, a) ==
    IF f = "doing" THEN bindResult(a) ELSE bindPromisedResult(a)

\* doing(block, catchall), the block having completed as b.
doing(b, ca) ==
    LET r == tryCatching(catchingErrors(ca), b) IN
    IF r.c = "throw" THEN r ELSE Return(handleDoingResult(r.v))

\* The body of doingAsync(block, catchall), the block having completed as b.
doingAsync(b, ca) ==
    LET r == tryCatchingAsync(catchingErrors(ca), b) IN
    IF r.c = "throw" THEN r ELSE Return(handleDoingResult(r.v))

NoStmt == [op |-> "none", arg |-> Undefined]
\* An invocation as it starts: its catchall, the number of statements its
\* block has executed, whether the block sits in a nested call ("keep" the
\* result, or "bind" it), and the last statement it executed.
Frame(ca) == [ca |-> ca, n |-> 0, wait |-> "no", last |-> NoStmt]

Top == frames[Len(frames)]
SetTop(fr) == [frames EXCEPT ![Len(frames)] = fr]
\* The block of the innermost invocation is at a statement.
Running == frames # <<>> /\ nestEnded = None /\ Top.wait = "no"

\* What a nested block returns.
NestReturns == {Raw("r"), Err(SecondError)}

\* The caller invokes f(block, ca).
NestCall(f, ca) ==
    /\ frames = <<>> /\ nestOutcome = None
    /\ nestFn' = f
    /\ frames' = <<Frame(ca)>>
    /\ UNCHANGED <<nestEnded, nestRet, nestOutcome>>
    /\ UNCHANGED blockVars
    /\ UNCHANGED opsVars

\* The innermost block executes `x = bind(a)`.
NestBind(a) ==
    /\ Running /\ Top.n < MaxStmts
    /\ frames' = SetTop([Top EXCEPT !.n = @ + 1,
                                    !.last = [op |-> "bind", arg |-> a]])
    /\ nestEnded' = IF bindOf(nestFn, a).c = "throw"
                    THEN bindOf(nestFn, a) ELSE None
    /\ UNCHANGED <<nestFn, nestRet, nestOutcome>>
    /\ UNCHANGED blockVars
    /\ UNCHANGED opsVars

\* The innermost block executes `throw x`.
NestThrow(x) ==
    /\ Running /\ Top.n < MaxStmts
    /\ frames' = SetTop([Top EXCEPT !.n = @ + 1,
                                    !.last = [op |-> "throw", arg |-> x]])
    /\ nestEnded' = Throw(x)
    /\ UNCHANGED <<nestFn, nestRet, nestOutcome>>
    /\ UNCHANGED blockVars
    /\ UNCHANGED opsVars

\* The innermost block calls doing / doingAsync itself: a new invocation
\* starts, and the block waits for its result.
NestEnter(ca, w) ==
    /\ Running /\ Top.n < MaxStmts /\ Len(frames) < MaxDepth
    /\ frames' =
          Append(SetTop([Top EXCEPT !.n = @ + 1, !.wait = w,
                                    !.last = [op |-> "call",
                                              arg |-> Undefined]]),
                 Frame(ca))
    /\ UNCHANGED <<nestFn, nestEnded, nestRet, nestOutcome>>
    /\ UNCHANGED blockVars
    /\ UNCHANGED opsVars

\* The innermost block returns v.
NestReturn(v) ==
    /\ Running
    /\ nestEnded' = Return(v)
    /\ UNCHANGED <<nestFn, frames, nestRet, nestOutcome>>
    /\ UNCHANGED blockVars
    /\ UNCHANGED opsVars

\* The innermost invocation completes: its try has handled how the block
\* ended.  The outermost hands its result to the caller; a nested one hands
\* it to the block that called it, which goes on, or ends with the fault
\* when the call raised.
NestExit ==
    /\ frames # <<>> /\ nestEnded # None
    /\ LET d == IF nestFn = "doing" THEN doing(nestEnded, Top.ca)
                ELSE doingAsync(nestEnded, Top.ca)
           rest == SubSeq(frames, 1, Len(frames) - 1)
           handed == IF nestFn = "doing" THEN d ELSE Return(promiseOf(d))
       IN  IF rest = <<>>
           THEN /\ frames' = <<>>
                /\ nestOutcome' = Deliver(nestFn, d)
                /\ nestEnded' = None
                /\ UNCHANGED nestRet
           ELSE LET E == rest[Len(rest)]
                    got == IF E.wait = "keep" /\ nestFn = "doingAsync"
                           THEN await(handed) ELSE handed
                IN  /\ UNCHANGED nestOutcome
                    /\ IF got.c = "throw"
                       THEN /\ nestEnded' = got
                            /\ frames' =
                                  [rest EXCEPT ![Len(rest)].wait = "no"]
                            /\ UNCHANGED nestRet
                       ELSE /\ nestEnded' = None
                            /\ nestRet' = got.v
                            /\ frames' =
                                  [rest EXCEPT ![Len(rest)].wait =
                                      IF E.wait = "keep" THEN "no" ELSE "bind"]
    /\ UNCHANGED nestFn
    /\ UNCHANGED blockVars
    /\ UNCHANGED opsVars

\* The block that wrote `bind(doing(...))` binds what the call handed it.
NestRebind ==
    /\ frames # <<>> /\ nestEnded = None /\ Top.wait = "bind"
    /\ frames' = SetTop([Top EXCEPT !.wait = "no",
                                    !.last = [op |-> "bind",
                                              arg |-> nestRet]])
    /\ nestEnded' = IF bindOf(nestFn, nestRet).c = "throw"
                    THEN bindOf(nestFn, nestRet) ELSE None
    /\ UNCHANGED <<nestFn, nestRet, nestOutcome>>
    /\ UNCHANGED blockVars
    /\ UNCHANGED opsVars

NextNest ==
    \/ \E f \in {"doing", "doingAsync"} : \E ca \in BOOLEAN : NestCall(f, ca)
    \/ \E a \in BindArgs(nestFn) : NestBind(a)
    \/ \E x \in Thrown : NestThrow(x)
    \/ \E ca \in BOOLEAN : \E w \in {"keep", "bind"} : NestEnter(ca, w)
    \/ \E v \in NestReturns : NestReturn(v)
    \/ NestExit
    \/ NestRebind

SpecNest == Init /\ [][NextNest]_vars

(***************************************************************************)
(* Vocabulary of the properties                                            *)
(***************************************************************************)
Done == phase = "done"
Started == phase # "idle"
NStmts == Len(block.stmts)
Executed(i) == \E k \in 1..Len(trace) : trace[k] = i
NoneAfter(i) == \A k \in 1..Len(trace) : trace[k] <= i
IsBind(i) == block.stmts[i].op = "bind"
ArgOf(i) == block.stmts[i].arg

\* The caller got v back: returned by a sync entry point, as the value of
\* the fulfilled promise of an async one.
Returned(v) ==
    outcome = [c |-> IF isAsyncFn(fn)
                     THEN "fulfilled" ELSE "return", v |-> v]
\* The caller got x raised: thrown by a sync entry point, as the reason of
\* the rejected promise of an async one.
Raised(x) ==
    outcome = [c |-> IF isAsyncFn(fn)
                     THEN "rejected" ELSE "throw", v |-> x]

IsSignal(x) == x.tag = "DoPropagateError"

BindStmt(a) == [op |-> "bind", arg |-> a]
ThrowStmt(x) == [op |-> "throw", arg |-> x]

(***************************************************************************)
(* C1: in doing and doingAsync, the block terminates at the first bind     *)
(* whose argument is an Err: no statement after that bind executes, no     *)
(* value is yielded for it, and the caller gets back an Err carrying       *)
(* exactly the error of that bind.                                         *)
(***************************************************************************)
C1_FirstErrBindTerminates ==
    (Started /\ isDoingFn(fn)) =>
        \A i \in 1..NStmts :
            (Executed(i) /\ IsBind(i) /\ ArgOf(i).tag = "Err") =>
                /\ NoneAfter(i)
                /\ pc = i
                /\ Len(bound) = i - 1
                /\ Done => Returned([tag |-> "Err", p |-> ArgOf(i).p])

C1_Witness ==
    /\ Done /\ fn = "doing"
    /\ block.stmts = <<BindStmt(Ok(Raw("b"))), BindStmt(Err(FirstError)),
                       BindStmt(Err(SecondError))>>
    /\ trace = <<1, 2>>
    /\ Returned(Err(FirstError))

(***************************************************************************)
(* C2: when the block raises a fault F that is not the propagation signal, *)
(* doing / doingAsync with catchall = true give back Err(F) and raise      *)
(* nothing; with catchall = false doing throws F and the promise of        *)
(* doingAsync rejects with F, and no Result is given back.                 *)
(***************************************************************************)
C2_RawFaultByCatchall ==
    (Done /\ isDoingFn(fn)
          /\ blockCompletion.c = "throw" /\ ~IsSignal(blockCompletion.v)) =>
        IF catchall
        THEN Returned([tag |-> "Err", p |-> blockCompletion.v])
        ELSE Raised(blockCompletion.v)

C2_Witness ==
    /\ Done /\ fn = "doing" /\ ~catchall
    /\ block.stmts = <<ThrowStmt(CustomError)>>
    /\ outcome = [c |-> "throw", v |-> CustomError]

(***************************************************************************)
(* C3: with catchall = false a failed bind is still turned into a returned *)
(* value: when the block binds Err(e) the caller gets Err(e) back and      *)
(* nothing is raised; what is raised to the caller is never the signal but *)
(* a fault the block raised itself.                                        *)
(***************************************************************************)
C3_FailedBindReturnedWithoutCatchall ==
    (Done /\ isDoingFn(fn) /\ ~catchall) =>
        /\ \A i \in 1..NStmts :
              (Executed(i) /\ IsBind(i) /\ ArgOf(i).tag = "Err") =>
                  Returned([tag |-> "Err", p |-> ArgOf(i).p])
        /\ outcome.c \in {"throw", "rejected"} =>
              /\ ~IsSignal(outcome.v)
              /\ blockCompletion = [c |-> "throw", v |-> outcome.v]

C3_Witness ==
    /\ Done /\ fn = "doingAsync" /\ ~catchall
    /\ block.stmts = <<BindStmt(Err(SecondError))>>
    /\ IsSignal(blockCompletion.v)
    /\ outcome = [c |-> "fulfilled", v |-> Err(SecondError)]

Yield(f, a) ==
    LET x == IF f = "doingAsync" /\ a.tag = "resolves" THEN a.p ELSE a
    IN  IF x.tag = "Ok" THEN x.p ELSE x

\* Statement s binds a failure (an Err, for doingAsync also a pending Err).
Propagates(f, s) ==
    /\ s.op = "bind"
    /\ \/ s.arg.tag = "Err"
       \/ f = "doingAsync" /\ s.arg.tag = "resolves" /\ s.arg.p.tag = "Err"

\* Statement s raises a raw fault (a throw, for doingAsync also the bind of
\* a promise that rejects).
RaisesRaw(f, s) ==
    \/ s.op = "throw"
    \/ f = "doingAsync" /\ s.op = "bind" /\ s.arg.tag = "rejects"

FaultOf(s) ==
    IF s.op = "throw" THEN s.arg
    ELSE IF s.arg.tag = "resolves" THEN s.arg.p.p
    ELSE s.arg.p

Surfacing == {i \in 1..NStmts : Propagates(fn, block.stmts[i])
                                    \/ RaisesRaw(fn, block.stmts[i])}

\* The first statement at which a fault surfaces; 0 if there is none.
FirstSurfacing ==
    IF Surfacing = {} THEN 0
    ELSE CHOOSE i \in Surfacing : \A j \in Surfacing : i <= j

\* An async block that returns a promise that rejects ends with that fault.
ReturnRejects ==
    /\ isAsyncFn(fn)
    /\ block.ret.op = "const" /\ block.ret.arg.tag = "rejects"

\* The value a block that runs to its return hands back.
ExpectedReturn ==
    IF block.ret.op = "const" THEN block.ret.arg
    ELSE IF NStmts = 0 THEN Undefined
    ELSE Yield(fn, ArgOf(NStmts))

Upto(n) == [k \in 1..n |-> k]

(***************************************************************************)
(* C5: an invocation of doing / doingAsync terminates exactly once: with   *)
(* Ok(returnValue) when the block returns normally, otherwise with the     *)
(* first fault that surfaces (the error of a failed bind, or a raw fault), *)
(* having executed no statement after it; once terminated, the outcome     *)
(* does not change and no statement of the block runs.                     *)
(***************************************************************************)
C5_Terminal ==
    LET k == FirstSurfacing IN
    IF k = 0
    THEN /\ trace = Upto(NStmts)
         /\ IF ReturnRejects
            THEN \/ Returned([tag |-> "Err", p |-> block.ret.arg.p])
                 \/ Raised(block.ret.arg.p)
            ELSE Returned([tag |-> "Ok", p |-> ExpectedReturn])
    ELSE /\ trace = Upto(k)
         /\ \/ Returned([tag |-> "Err", p |-> FaultOf(block.stmts[k])])
            \/ Raised(FaultOf(block.stmts[k]))

C5_TerminatesOnce ==
    /\ []((Started /\ isDoingFn(fn)) =>
            /\ ~Done => outcome = None
            /\ Done => C5_Terminal)
    /\ [][(Done /\ isDoingFn(fn)) =>
            (Done' /\ outcome' = outcome /\ trace' = trace /\ pc' = pc)]_vars

C5_Witness ==
    /\ Done /\ fn = "doingAsync" /\ catchall
    /\ block.stmts = <<BindStmt(Resolves(Ok(Raw("b")))),
                       ThrowStmt(CustomError), BindStmt(Err(FirstError))>>
    /\ trace = <<1, 2>>
    /\ outcome = [c |-> "fulfilled", v |-> Err(CustomError)]

(***************************************************************************)
(* C6: within one doingAsync block binds are strictly sequential: at most  *)
(* one bind is in flight at a time, no statement after a bind executes     *)
(* while that bind is in flight, and no statement executes after a bind    *)
(* that failed.                                                            *)
(***************************************************************************)
InFlight == {i \in DOMAIN binds : binds[i].st \in {"pending", "settled"}}

C7_AllBindsSucceed ==
    (Started /\ fn = "doing"
             /\ \A i \in 1..NStmts : IsBind(i) /\ ArgOf(i).tag # "Err") =>
        /\ \A k \in 1..Len(bound) :
              bound[k] = IF ArgOf(k).tag = "Ok" THEN ArgOf(k).p ELSE ArgOf(k)
        /\ Done =>
              /\ Len(bound) = NStmts
              /\ blockCompletion = [c |-> "return", v |-> ExpectedReturn]
              /\ outcome = [c |-> "return",
                            v |-> [tag |-> "Ok", p |-> ExpectedReturn]]

C7_Witness ==
    /\ Done /\ fn = "doing"
    /\ block.stmts = <<BindStmt(Raw("a")), BindStmt(Resolves(Err(FirstError))),
                       BindStmt(Ok(Raw("b")))>>
    /\ block.ret.op = "last"
    /\ bound = <<Raw("a"), Resolves(Err(FirstError)), Raw("b")>>
    /\ outcome = [c |-> "return", v |-> Ok(Raw("b"))]

(***************************************************************************)
(* C8: in doingAsync, bind awaits a pending argument and then classifies   *)
(* the value it resolved to as the synchronous bind does: a pending raw    *)
(* value v yields v, a pending Ok(v) yields v, and a pending Err(e)        *)
(* terminates the block, the call resolving to Err(e).                     *)
(***************************************************************************)
C8_PendingArgument ==
    (Started /\ fn = "doingAsync") =>
        \A i \in 1..NStmts :
            (IsBind(i) /\ ArgOf(i).tag = "resolves"
                       /\ binds[i].st = "done") =>
                LET x == ArgOf(i).p IN
                IF x.tag = "Err"
                THEN /\ NoneAfter(i)
                     /\ Len(bound) = i - 1
                     /\ phase # "block"
                     /\ Done => outcome = [c |-> "fulfilled",
                                           v |-> [tag |-> "Err", p |-> x.p]]
                ELSE /\ Len(bound) >= i
                     /\ bound[i] = IF x.tag = "Ok" THEN x.p ELSE x

C8_Witness ==
    /\ Done /\ fn = "doingAsync" /\ ~catchall
    /\ block.stmts = <<BindStmt(Resolves(Raw("a"))),
                       BindStmt(Resolves(Ok(Raw("b")))),
                       BindStmt(Resolves(Err(FirstError)))>>
    /\ bound = <<Raw("a"), Raw("b")>>
    /\ outcome = [c |-> "fulfilled", v |-> Err(FirstError)]

(***************************************************************************)
(* C9: in doingAsync, when the block awaits bind(p) and p rejects with F,  *)
(* the call resolves to Err(F) with catchall = true, and the promise       *)
(* doingAsync returned rejects with F with catchall = false.               *)
(***************************************************************************)
C9_RejectedBindArgument ==
    (Done /\ fn = "doingAsync") =>
        \A i \in 1..NStmts :
            (Executed(i) /\ IsBind(i) /\ ArgOf(i).tag = "rejects") =>
                IF catchall
                THEN outcome = [c |-> "fulfilled",
                                v |-> [tag |-> "Err", p |-> ArgOf(i).p]]
                ELSE outcome = [c |-> "rejected", v |-> ArgOf(i).p]

C9_Witness ==
    /\ Done /\ fn = "doingAsync" /\ catchall
    /\ block.stmts = <<BindStmt(Rejects(CustomError))>>
    /\ binds[1] = [st |-> "done", c |-> Throw(CustomError)]
    /\ outcome = [c |-> "fulfilled", v |-> Err(CustomError)]

(***************************************************************************)
(* C10: trying and tryingAsync never raise to their caller: a block that   *)
(* returns v gives Ok(v), a block that raises F (for tryingAsync, also one *)
(* whose promise rejects with F) gives Err(F) carrying that same F.        *)
(***************************************************************************)
C10_TryingNeverRaises ==
    (Done /\ fn \in {"trying", "tryingAsync"}) =>
        /\ outcome.c \in {"return", "fulfilled"}
        /\ outcome.v =
              IF NStmts > 0 THEN [tag |-> "Err", p |-> ArgOf(1)]
              ELSE IF ReturnRejects
              THEN [tag |-> "Err", p |-> block.ret.arg.p]
              ELSE [tag |-> "Ok", p |-> ExpectedReturn]

C10_Witness ==
    /\ Done /\ fn = "tryingAsync"
    /\ block.stmts = <<>> /\ block.ret.arg = Rejects(CustomError)
    /\ outcome = [c |-> "fulfilled", v |-> Err(CustomError)]

(***************************************************************************)
(* What a block without binds raises: the fault of its first throw, or the *)
(* reason of the rejected promise an async block returns.                  *)
(***************************************************************************)
BlockRaises == NStmts > 0 \/ ReturnRejects
RaisedByBlock == IF NStmts > 0 THEN ArgOf(1) ELSE block.ret.arg.p

\* F is an instance of class cls or of a subclass of cls.
IsA(F, cls) == F.tag = "Error" /\ cls \in Ancestors(F.p)
Listed(F) == \E i \in 1..Len(allowed) : IsA(F, allowed[i])

(***************************************************************************)
(* C11: tryCatching and tryCatchingAsync with a non-empty allow-list: a    *)
(* fault F raised by the block comes back as Err(F) exactly when F is an   *)
(* instance of at least one listed class (instances of subclasses count);  *)
(* otherwise F is raised again to the caller and no Result is produced; a  *)
(* block that returns v gives Ok(v).                                       *)
(***************************************************************************)
C11_AllowListDecides ==
    (Done /\ isCatchingFn(fn) /\ Len(allowed) > 0) =>
        IF BlockRaises
        THEN /\ Returned([tag |-> "Err", p |-> RaisedByBlock])
                    <=> Listed(RaisedByBlock)
             /\ ~Listed(RaisedByBlock) => Raised(RaisedByBlock)
        ELSE Returned([tag |-> "Ok", p |-> ExpectedReturn])

C11_Witness ==
    /\ Done /\ fn = "tryCatching"
    /\ allowed = <<"CustomError", "JonadsError">>
    /\ block.stmts = <<ThrowStmt(Fault("GetValueError"))>>
    /\ outcome = [c |-> "return", v |-> Err(Fault("GetValueError"))]

(***************************************************************************)
(* C12: with an empty allow-list tryCatching([], block) gives what         *)
(* trying(block) gives and tryCatchingAsync([], block) what                *)
(* tryingAsync(block) gives: every fault the block raises is caught into   *)
(* an Err, none is raised again.                                           *)
(***************************************************************************)
C12_EmptyAllowListIsTrying ==
    (Done /\ isCatchingFn(fn) /\ Len(allowed) = 0) =>
        /\ outcome.c \in {"return", "fulfilled"}
        /\ outcome.v =
              IF BlockRaises THEN [tag |-> "Err", p |-> RaisedByBlock]
              ELSE [tag |-> "Ok", p |-> ExpectedReturn]
        /\ outcome =
              Deliver(fn, IF fn = "tryCatching" THEN trying(blockCompletion)
                          ELSE tryingAsync(blockCompletion))

C12_Witness ==
    /\ Done /\ fn = "tryCatchingAsync" /\ allowed = <<>>
    /\ block.stmts = <<ThrowStmt(Null)>>
    /\ outcome = [c |-> "fulfilled", v |-> Err(Null)]

(***************************************************************************)
(* Vocabulary of the properties of method calls                            *)
(***************************************************************************)
AsyncMethods ==
    {"leftOrAsync", "rightOrAsync", "valueOrAsync", "mapLeftAsync",
     "mapRightAsync", "mapAsync", "mapErrAsync", "tapLeftAsync",
     "tapRightAsync", "matchAsync", "andThenAsync", "okOrAsync",
     "okOrErrorAsync"}

Constructed == ctor # NoCtor
Called == op # NoOp
\* The last call handed v to its caller: returned it, or, for an async
\* method, returned a promise fulfilled with it.
Yields(v) ==
    opResult = [c |-> "return",
                v |-> IF op.m \in AsyncMethods
                      THEN [tag |-> "resolves", p |-> v] ELSE v]
\* The last call raised x to its caller: threw it, or, for an async method,
\* returned a promise rejected with it.
Fails(x) ==
    IF op.m \in AsyncMethods
    THEN opResult = [c |-> "return", v |-> [tag |-> "rejects", p |-> x]]
    ELSE opResult = [c |-> "throw", v |-> x]
HasFailed ==
    \/ opResult.c = "throw"
    \/ opResult.c = "return" /\ opResult.v.tag = "rejects"
LeftTagged(e) == e.tag \in {"Left", "Ok", "Some"}
RightTagged(e) == e.tag \in {"Right", "Err", "None"}
Nullish(v) == v.tag \in {"null", "undefined"}

(***************************************************************************)
(* C13: Err(e).andThen(f) and Err(e).andThenAsync(f) never invoke f and    *)
(* hand back an Err holding the same e; None.andThen(f) and                *)
(* None.andThenAsync(f) never invoke f and hand back a None.               *)
(***************************************************************************)
C13_AndThenSkipsOnFailure ==
    (Called /\ op.m \in {"andThen", "andThenAsync"}) =>
        /\ created.tag = "Err" =>
              opCalls = <<>> /\ Yields([tag |-> "Err", p |-> created.p])
        /\ created.tag = "None" =>
              /\ opCalls = <<>>
              /\ \E n \in {Null, Undefined} :
                    Yields([tag |-> "None", p |-> n])

C13_Witness ==
    /\ created = Err(FirstError)
    /\ op = [m |-> "andThenAsync", xs |-> <<AsyncFn("toOk")>>]
    /\ opCalls = <<>>
    /\ opResult = Return(Resolves(Err(FirstError)))

(***************************************************************************)
(* C14: every Err holds a payload that is neither null nor undefined,      *)
(* whichever way it was produced; here, by trying, tryCatching, doing and  *)
(* their async forms from a value raised inside the block.                 *)
(***************************************************************************)
C14_ErrPayloadNeverNullish ==
    /\ tryCompletion.v.tag = "Err" => ~Nullish(tryCompletion.v.p)
    /\ outcome.v.tag = "Err" => ~Nullish(outcome.v.p)

\* The value the last call handed back, out of its promise if it is async.
Handed ==
    IF opResult.c = "return" /\ opResult.v.tag = "resolves"
    THEN opResult.v.p ELSE opResult.v
IsInstance(v) == v.tag \in {"Left", "Right", "Ok", "Err", "Some", "None"}
\* The instances in sight: the receiver, the one handed back, and the one
\* that one wraps.
InSight ==
    {recv, Handed} \cup (IF IsInstance(Handed) THEN {Handed.p} ELSE {})

(***************************************************************************)
(* C15: no Some holds null or undefined, whichever way it was produced: by *)
(* Option.from, by map / mapAsync or andThen on an Option, by someOrNone / *)
(* asNullable, by Option.transpose / Result.transpose.                     *)
(***************************************************************************)
C15_SomeNeverNullish ==
    \A x \in InSight : x.tag = "Some" => ~Nullish(x.p)

Transforming ==
    {"mapLeft", "mapRight", "map", "mapErr", "mapLeftAsync", "mapRightAsync",
     "mapAsync", "mapErrAsync"}

(***************************************************************************)
(* C16: of isLeft and isRight exactly one is true on every instance, with  *)
(* isOk = isSome = isLeft and isErr = isNone = isRight; the tag and the    *)
(* payload of an instance are what they were at construction after any     *)
(* sequence of calls on it; a transforming operation hands back a new      *)
(* instance, never the receiver.                                           *)
(***************************************************************************)
C16_TagFixedInstanceImmutable ==
    Constructed =>
        /\ recv = created
        /\ op.m \in {"isLeft", "isOk", "isSome"} =>
              Yields(Bool(LeftTagged(created)))
        /\ op.m \in {"isRight", "isErr", "isNone"} =>
              Yields(Bool(~LeftTagged(created)))
        /\ (op.m \in Transforming /\ ~HasFailed) =>
              opRef = "new" /\ IsInstance(Handed)

C16_Witness ==
    /\ created = Left(Raw("a")) /\ recv = created /\ nops = 2
    /\ op = [m |-> "mapLeft", xs |-> <<Fn("toNull")>>]
    /\ opResult = Return(Left(Null)) /\ opRef = "new"

\* The fault the last call raised to its caller.
Failure == IF opResult.c = "throw" THEN opResult.v ELSE opResult.v.p
Unwrapping == {"getLeftOrThrow", "getRightOrThrow"}
\* A function the call invoked raised x, or a promise passed to the call
\* rejects with x.
RaisedByArgument(x) ==
    \/ \E k \in 1..Len(opCalls) :
            opCalls[k].f.p = "throws" /\ x = CustomError
    \/ \E i \in 1..Len(op.xs) : op.xs[i] = [tag |-> "rejects", p |-> x]

(***************************************************************************)
(* C17 as stated: only getLeftOrThrow and getRightOrThrow can raise, and   *)
(* only a GetValueError; every other operation returns a value for every   *)
(* instance and every argument.                                            *)
(***************************************************************************)
C17_OnlyUnwrappingRaises ==
    (Called /\ HasFailed) =>
        op.m \in Unwrapping /\ Failure.tag = "GetValueError"

(***************************************************************************)
(* C17 amended: the only fault the operations raise themselves is the      *)
(* GetValueError of getLeftOrThrow and getRightOrThrow; every other        *)
(* operation, given arguments of the kinds its signature declares, returns *)
(* a value unless a function passed to it raises or a promise passed to it *)
(* rejects, and then that very fault reaches the caller.                   *)
(***************************************************************************)
C17_RaisesOnlyOwnGetValueError ==
    (Called /\ HasFailed) =>
        IF op.m \in Unwrapping
        THEN Failure.tag = "GetValueError"
        ELSE RaisedByArgument(Failure)

C17_Witness ==
    /\ created = Ok(Raw("a"))
    /\ op = [m |-> "mapAsync", xs |-> <<AsyncFn("throws")>>]
    /\ opResult = Return(Rejects(CustomError))

(***************************************************************************)
(* C18: getLeftOrThrow returns the payload of a left-tagged instance and   *)
(* raises a GetValueError naming "left" on a right-tagged one;             *)
(* getRightOrThrow returns the payload of a right-tagged instance and      *)
(* raises a GetValueError naming "right" on a left-tagged one (so          *)
(* Err(e).getRightOrThrow() is e and Err(e).getLeftOrThrow() raises); the  *)
(* receiver is unchanged.                                                  *)
(***************************************************************************)
C18_GetOrThrow ==
    /\ (Called /\ op.m = "getLeftOrThrow") =>
          /\ opResult = IF LeftTagged(created)
                        THEN [c |-> "return", v |-> created.p]
                        ELSE [c |-> "throw",
                              v |-> [tag |-> "GetValueError", p |-> "left"]]
          /\ recv = created
    /\ (Called /\ op.m = "getRightOrThrow") =>
          /\ opResult = IF RightTagged(created)
                        THEN [c |-> "return", v |-> created.p]
                        ELSE [c |-> "throw",
                              v |-> [tag |-> "GetValueError", p |-> "right"]]
          /\ recv = created

C18_Witness ==
    /\ created = Err(FirstError) /\ recv = created
    /\ op = [m |-> "getLeftOrThrow", xs |-> <<>>]
    /\ opResult = Throw(GetValueError("left"))

\* What the fallback gives when the payload it stands in for is missing:
\* itself, or what it returns (or raises) when called with xs.
FallbackGives(fallback, xs) ==
    IF fallback.tag = "fn" THEN ap(fallback, xs)
    ELSE [c |-> "return", v |-> fallback]

(***************************************************************************)
(* C19 as stated: leftOr / valueOr on a left-tagged instance give the      *)
(* payload for any fallback and never invoke a fallback function; on a     *)
(* right-tagged instance they give the fallback itself when it is a plain  *)
(* value and fallback(rightPayload) when it is a function.  rightOr is     *)
(* symmetric.                                                              *)
(***************************************************************************)
C19_FallbackOfPayload ==
    /\ (Called /\ op.m \in {"leftOr", "valueOr"}) =>
          IF LeftTagged(created)
          THEN opResult = [c |-> "return", v |-> created.p] /\ opCalls = <<>>
          ELSE opResult = FallbackGives(op.xs[1], <<created.p>>)
    /\ (Called /\ op.m = "rightOr") =>
          IF RightTagged(created)
          THEN opResult = [c |-> "return", v |-> created.p] /\ opCalls = <<>>
          ELSE opResult = FallbackGives(op.xs[1], <<created.p>>)

(***************************************************************************)
(* C19 amended: as stated, except that valueOr on a None calls a fallback  *)
(* function without argument: the result is fallback(), not                *)
(* fallback(rightPayload).                                                 *)
(***************************************************************************)
C19_FallbackRule ==
    /\ (Called /\ op.m \in {"leftOr", "valueOr"}) =>
          IF LeftTagged(created)
          THEN opResult = [c |-> "return", v |-> created.p] /\ opCalls = <<>>
          ELSE IF op.m = "valueOr" /\ created.tag = "None"
          THEN opResult = FallbackGives(op.xs[1], <<>>)
          ELSE opResult = FallbackGives(op.xs[1], <<created.p>>)
    /\ (Called /\ op.m = "rightOr") =>
          IF RightTagged(created)
          THEN opResult = [c |-> "return", v |-> created.p] /\ opCalls = <<>>
          ELSE opResult = FallbackGives(op.xs[1], <<created.p>>)

C19_Witness ==
    /\ created = NoneOf(Null)
    /\ op = [m |-> "valueOr", xs |-> <<Fn("id")>>]
    /\ opResult = Return(Undefined)

(***************************************************************************)
(* C20: Option.from(x) is a None exactly when x is null or undefined, and  *)
(* Some(x) for every other x, 0 and the empty string included;             *)
(* Option.none() is always a None.                                         *)
(***************************************************************************)
C20_FromClassifiesNullish ==
    /\ ctor.name = "Option.from" =>
          /\ created.tag = "None" <=> ctor.arg.tag \in {"null", "undefined"}
          /\ created.tag # "None" =>
                created = [tag |-> "Some", p |-> ctor.arg]
    /\ ctor.name = "Option.none" => created.tag = "None"

C20_Witness ==
    /\ ctor = [name |-> "Option.from", arg |-> Zero]
    /\ created = Some(Zero)
    /\ op.m = "isNone" /\ opResult = Return(Bool(FALSE))

\* What Option.from makes of v: a None holding v when v is null or
\* undefined, a Some holding v otherwise.
Classified(v) ==
    IF Nullish(v) THEN [tag |-> "None", p |-> v] ELSE [tag |-> "Some", p |-> v]

(***************************************************************************)
(* C21: someOrNone gives Some(v) for Ok(v) with v neither null nor         *)
(* undefined, None for Ok(null) and Ok(undefined), and None for every Err, *)
(* the error being discarded; asNullable gives Ok(o) for Ok(v), o being    *)
(* what Option.from makes of v, and an Err carrying the same error for     *)
(* Err(e).                                                                 *)
(***************************************************************************)
C21_ResultToOption ==
    /\ (Called /\ op.m = "someOrNone") =>
          IF created.tag = "Ok"
          THEN /\ Yields(Classified(created.p))
               /\ Handed.tag = "Some" <=> ~Nullish(created.p)
          ELSE Handed.tag = "None" /\ Nullish(Handed.p)
    /\ (Called /\ op.m = "asNullable") =>
          IF created.tag = "Ok"
          THEN Yields([tag |-> "Ok", p |-> Classified(created.p)])
          ELSE Yields([tag |-> "Err", p |-> created.p])

C21_Witness ==
    /\ created = Ok(Undefined)
    /\ op = [m |-> "someOrNone", xs |-> <<>>]
    /\ opResult = Return(NoneOf(Undefined))

C23_OptionTranspose ==
    (Called /\ op.m = "Option.transpose") =>
        LET option == op.xs[1] IN
        /\ (option.tag = "Some" /\ option.p.tag = "Ok") =>
              Yields([tag |-> "Ok",
                      p |-> [tag |-> "Some", p |-> option.p.p]])
        /\ (option.tag = "Some" /\ option.p.tag = "Err") =>
              Yields([tag |-> "Err", p |-> option.p.p])
        /\ option.tag = "None" =>
              /\ Handed.tag = "Ok"
              /\ Handed.p.tag = "None"

C23_Witness ==
    /\ created = Some(Err(FirstError))
    /\ op = [m |-> "Option.transpose", xs |-> <<created>>]
    /\ opResult = Return(Err(FirstError))

\* The last two calls were g(f(created)), f having returned.
Composed(f, g) ==
    /\ opPrev.op = [m |-> f, xs |-> <<created>>]
    /\ opPrev.c.c = "return"
    /\ op = [m |-> g, xs |-> <<opPrev.c.v>>]

\* An Option of a Result: Some(Ok(x)), Some(Err(e)) or None.
OptionOfResult(o) ==
    \/ o.tag = "None"
    \/ o.tag = "Some" /\ o.p.tag \in {"Ok", "Err"}

(***************************************************************************)
(* C24 as stated: Option.transpose(Result.transpose(opt)) hands back an    *)
(* Option equal to opt, tags and payloads at both levels, for opt =        *)
(* Some(Ok(x)), Some(Err(e)) and None.                                     *)
(***************************************************************************)
C24_RoundTripAsStated ==
    (OptionOfResult(created)
        /\ Composed("Result.transpose", "Option.transpose")) =>
        Yields(created)

(***************************************************************************)
(* C24 amended: Result.transpose(Option.transpose(opt)) hands back         *)
(* Some(Ok(x)) for opt = Some(Ok(x)) and Some(Err(e)) for opt =            *)
(* Some(Err(e)), tags and payloads equal at both levels, and for an absent *)
(* opt an absent Option, which holds null.                                 *)
(***************************************************************************)
C24_RoundTrip ==
    (OptionOfResult(created)
        /\ Composed("Option.transpose", "Result.transpose")) =>
        IF created.tag = "Some"
        THEN Yields(created)
        ELSE Yields([tag |-> "None", p |-> Null])

C24_Witness ==
    /\ created = NoneOf(Undefined)
    /\ Composed("Option.transpose", "Result.transpose")
    /\ opPrev.c = Return(Ok(NoneOf(Null)))
    /\ opResult = Return(NoneOf(Null))

OkOrs == {"okOr", "okOrAsync", "okOrError", "okOrErrorAsync"}

\* What argument a supplies: itself, the value a promise resolves to, or
\* what a factory returns (or resolves to).
Supplied(a) ==
    CASE a.tag = "resolves" -> a.p
      [] a.tag \in {"fn", "asyncfn"} /\ a.p = "mkErr" -> SecondError
      [] a.tag \in {"fn", "asyncfn"} /\ a.p = "mkMsg" -> Raw("oops")
      [] OTHER -> a

IsFactory(a) == a.tag \in {"fn", "asyncfn"}

(***************************************************************************)
(* C25: on a present Option, okOr, okOrAsync, okOrError and okOrErrorAsync *)
(* hand back Ok(value) and invoke no factory; on an absent Option, okOr    *)
(* and okOrAsync hand back Err of the error supplied, or of the one the    *)
(* factory or the pending value produces, and okOrError and okOrErrorAsync *)
(* hand back Err(new Error(message)) for the message supplied or produced; *)
(* a factory is invoked once, without arguments.                           *)
(***************************************************************************)
C25_OptionToResult ==
    (Called /\ op.m \in OkOrs) =>
        LET a == op.xs[1] IN
        IF created.tag = "Some"
        THEN Yields([tag |-> "Ok", p |-> created.p]) /\ opCalls = <<>>
        ELSE (~(IsFactory(a) /\ a.p = "throws")) =>
                /\ opCalls = IF IsFactory(a)
                             THEN <<[f |-> a, xs |-> <<>>]>> ELSE <<>>
                /\ IF op.m \in {"okOr", "okOrAsync"}
                   THEN Yields([tag |-> "Err", p |-> Supplied(a)])
                   ELSE Yields([tag |-> "Err",
                                p |-> [tag |-> "NewError",
                                       p |-> Supplied(a)]])

C25_Witness ==
    /\ created = NoneOf(Null)
    /\ op = [m |-> "okOrErrorAsync", xs |-> <<AsyncFn("mkMsg")>>]
    /\ opResult = Return(Resolves(Err(NewError(Raw("oops")))))
    /\ opCalls = <<[f |-> AsyncFn("mkMsg"), xs |-> <<>>]>>

(***************************************************************************)
(* C26: for a Result r, Ok or Err, r.map(x => x) hands back a Result with  *)
(* the tag and the payload of r; on an Err the mapper is not invoked.      *)
(***************************************************************************)
C26_MapIdentity ==
    (Called /\ created.tag \in {"Ok", "Err"}
            /\ op = [m |-> "map", xs |-> <<[tag |-> "fn", p |-> "id"]>>]) =>
        /\ opResult.c = "return"
        /\ opResult.v.tag = created.tag
        /\ opResult.v.p = created.p
        /\ created.tag = "Err" => opCalls = <<>>
        /\ created.tag = "Ok" =>
              opCalls = <<[f |-> op.xs[1], xs |-> <<created.p>>]>>

C26_Witness ==
    /\ created = Err(FirstError) /\ nops = 1
    /\ op = [m |-> "map", xs |-> <<Fn("id")>>]
    /\ opResult = Return(Err(FirstError))
    /\ opCalls = <<>>

Taps == {"tapLeft", "tapRight", "tapLeftAsync", "tapRightAsync"}
\* The tap called is the one of the side the instance holds.
TapMatches ==
    \/ op.m \in {"tapLeft", "tapLeftAsync"} /\ LeftTagged(created)
    \/ op.m \in {"tapRight", "tapRightAsync"} /\ RightTagged(created)

(***************************************************************************)
(* C27: tapLeft, tapRight and their async forms invoke the callback once,  *)
(* with the payload, when the tag matches and never when it does not; they *)
(* hand back the very instance they were called on, not a new one, its tag *)
(* and payload unchanged; tapLeftAsync and tapRightAsync hand it back only *)
(* once the promise of the callback has resolved: when the callback raises *)
(* or its promise rejects, the instance is not handed back and that fault  *)
(* reaches the caller.                                                     *)
(***************************************************************************)
C27_TapReturnsReceiver ==
    (Called /\ op.m \in Taps) =>
        /\ recv = created
        /\ opCalls = IF TapMatches
                     THEN <<[f |-> op.xs[1], xs |-> <<created.p>>]>>
                     ELSE <<>>
        /\ IF TapMatches /\ op.xs[1].p = "throws"
           THEN Fails(CustomError) /\ opRef = "none"
           ELSE Yields(created) /\ opRef = "this"

C27_Witness ==
    /\ created = Left(Raw("a")) /\ nops = 2
    /\ op = [m |-> "tapLeftAsync", xs |-> <<AsyncFn("log")>>]
    /\ opResult = Return(Resolves(created)) /\ opRef = "this"
    /\ opCalls = <<[f |-> AsyncFn("log"), xs |-> <<Raw("a")>>]>>

\* The payload a mapper of the model makes of v.
Mapped(mapper, v) == IF mapper.p = "id" THEN v ELSE Null

(***************************************************************************)
(* C30: the combinators of Result and Option keep the subtype, the ones    *)
(* inherited from Either drop it: map, mapErr, asNullable, and andThen on  *)
(* an Err, hand back a value for which Result.isInstance is true, and map  *)
(* on an Option one for which Option.isInstance is true; mapLeft, mapRight *)
(* and their async forms on an Ok, Err, Some or None hand back a plain     *)
(* Left or Right, of the side and with the payload expected, for which     *)
(* Result.isInstance and Option.isInstance are false and Either.isInstance *)
(* is true.                                                                *)
(***************************************************************************)
C30_SubtypeKeptOrDropped ==
    (Called /\ ~HasFailed) =>
        /\ (isResult(created)
                /\ \/ op.m \in {"map", "mapErr", "asNullable"}
                   \/ op.m = "andThen" /\ created.tag = "Err") =>
              /\ Result_isInstance(Handed)
              /\ Handed.tag = created.tag
        /\ (isOption(created) /\ op.m = "map") =>
              /\ Option_isInstance(Handed)
              /\ Handed.tag = created.tag
        /\ ((isResult(created) \/ isOption(created))
                /\ op.m \in {"mapLeft", "mapRight", "mapLeftAsync",
                              "mapRightAsync"}) =>
              /\ Handed.tag = IF LeftTagged(created) THEN "Left" ELSE "Right"
              /\ Handed.p =
                    IF LeftTagged(created)
                            <=> op.m \in {"mapLeft", "mapLeftAsync"}
                    THEN Mapped(op.xs[1], created.p) ELSE created.p
              /\ ~Result_isInstance(Handed)
              /\ ~Option_isInstance(Handed)
              /\ Either_isInstance(Handed)

C30_Witness ==
    /\ created = Ok(Raw("a"))
    /\ op = [m |-> "mapLeft", xs |-> <<Fn("id")>>]
    /\ opResult = Return(Left(Raw("a")))
    /\ ~Result_isInstance(opResult.v) /\ Either_isInstance(opResult.v)

(***************************************************************************)
(* C29: doing / doingAsync and trying / tryingAsync never flatten what the *)
(* block returns: when the block returns normally a value that is itself a *)
(* Result, Ok or Err, the caller gets an Ok wrapping that Result, so a     *)
(* block that returns Err(e) without binding it gives an Ok; an Err at the *)
(* top level comes only from a failed bind or a fault raised.              *)
(***************************************************************************)
C29_ReturnNotFlattened ==
    (Done /\ fn \in {"doing", "doingAsync", "trying", "tryingAsync"}) =>
        /\ (blockCompletion.c = "return"
                /\ blockCompletion.v.tag \in {"Ok", "Err"}) =>
              /\ Returned([tag |-> "Ok", p |-> blockCompletion.v])
              /\ isLeft(outcome.v)
        /\ (outcome.c \in {"return", "fulfilled"}
                /\ outcome.v.tag = "Err") =>
              /\ blockCompletion.c = "throw"
              /\ \/ IsSignal(blockCompletion.v)
                       /\ outcome.v.p = blockCompletion.v.p
                 \/ ~IsSignal(blockCompletion.v)
                       /\ outcome.v.p = blockCompletion.v

C29_Witness ==
    /\ Done /\ fn = "doingAsync"
    /\ block.stmts = <<BindStmt(Ok(Raw("b")))>>
    /\ block.ret = [op |-> "const", arg |-> Err(SecondError)]
    /\ blockCompletion = Return(Err(SecondError))
    /\ outcome = [c |-> "fulfilled", v |-> Ok(Err(SecondError))]

\* Binding a fails: a is an Err, or in an async block a promise of one.
BindFails(a) ==
    \/ a.tag = "Err"
    \/ nestFn = "doingAsync" /\ a.tag = "resolves" /\ a.p.tag = "Err"
ErrOf(a) == IF a.tag = "Err" THEN a.p ELSE a.p.p
Depth == Len(frames)
\* The bind just called in the innermost block has failed with e.
FailedBind(e) ==
    /\ frames # <<>>
    /\ nestEnded = [c |-> "throw", v |-> [tag |-> "DoPropagateError", p |-> e]]
\* What the caller of the outermost invocation gets when it returns v.
NestReturned(v) ==
    nestOutcome = [c |-> IF nestFn = "doingAsync"
                         THEN "fulfilled" ELSE "return", v |-> v]

\* The step taken after a bind failed with e: the innermost invocation,
\* and no other, is over, and it has returned Err(e) to the block that
\* called it, which has not ended, or to the caller.
InnermostReturnsErr(e) ==
    /\ Len(frames') = Depth - 1
    /\ \A i \in 1..(Depth - 1) :
          /\ frames'[i].ca = frames[i].ca
          /\ frames'[i].n = frames[i].n
          /\ frames'[i].last = frames[i].last
          /\ i < Depth - 1 => frames'[i] = frames[i]
    /\ IF Depth = 1
       THEN NestReturned([tag |-> "Err", p |-> e])'
       ELSE /\ nestOutcome' = None
            /\ nestEnded' = None
            /\ IF frames[Depth - 1].wait = "keep"
               THEN /\ nestRet' = [tag |-> "Err", p |-> e]
                    /\ frames'[Depth - 1].wait = "no"
               ELSE /\ nestRet' \in {[tag |-> "Err", p |-> e],
                                     [tag |-> "resolves",
                                      p |-> [tag |-> "Err", p |-> e]]}
                    /\ frames'[Depth - 1].wait = "bind"

(***************************************************************************)
(* C28: with nested doing / doingAsync, a failed bind terminates only the  *)
(* innermost invocation executing when bind is called, all blocks being    *)
(* handed the same bind: the block of that invocation ends at the bind,    *)
(* the invocation returns Err(e), and the block that called it goes on     *)
(* with its next statement, unless it binds that Err itself and so fails   *)
(* in its turn.                                                            *)
(***************************************************************************)
C28_InnermostTerminates ==
    /\ []((frames # <<>> /\ Top.last.op = "bind" /\ Top.wait = "no"
              /\ BindFails(Top.last.arg)) =>
            FailedBind(ErrOf(Top.last.arg)))
    /\ [][\A e \in {FirstError, SecondError} :
            FailedBind(e) => InnermostReturnsErr(e)]_vars
    /\ [][(frames # <<>> /\ nestEnded = None /\ Top.wait = "bind"
              /\ BindFails(nestRet)) =>
            /\ Len(frames') = Depth
            /\ FailedBind(ErrOf(nestRet))']_vars

\* The enclosing block went on after the nested invocation returned
\* Err(FirstError): it returned r, and the caller got Ok(r).
C28_Witness ==
    /\ nestFn = "doing" /\ frames = <<>>
    /\ nestRet = Err(FirstError)
    /\ nestOutcome = [c |-> "return", v |-> Ok(Raw("r"))]

====
